---------------------------- MODULE Spec2Model ----------------------------
(***************************************************************************)
(* A model of the paper.io simulation core of rust-server:                 *)
(*   src/src/games/paperio/state.rs    grid primitives, TerritoryGrid,     *)
(*                                     Player, GameState                   *)
(*   src/src/games/paperio/systems.rs  movement, claim (flood fill),       *)
(*                                     collisions, timers, respawn, score  *)
(*   src/src/games/paperio/mod.rs      PaperioGame: tick, handle_input,    *)
(*                                     player_joined, player_left          *)
(* and of its room and session bookkeeping:                                *)
(*   src/src/room/mod.rs               Room, RoomManager                   *)
(*   src/src/session/mod.rs            Session, SessionManager             *)
(* Option<T> is modelled as a sequence of length 0 (None) or 1 (Some).     *)
(* A Vec is a sequence, a HashSet a set, a HashMap a function; the order   *)
(* in which a HashMap is iterated is a nondeterministic choice.            *)
(***************************************************************************)
EXTENDS Integers, Sequences, FiniteSets, TLC

VARIABLES players, territory, tick, config, joins, last,
          room_manager, session_manager

vars == <<players, territory, tick, config, joins, last,
          room_manager, session_manager>>

(***************************************************************************)
(* Bounds of the model.                                                    *)
(***************************************************************************)
GridW == 4
GridH == 3
NumPlayers == 2
MaxTicks == 4
MaxJoins == 2

PlayerIds == 1..NumPlayers

None == <<>>
Some(v) == <<v>>

(***************************************************************************)
(* state.rs: GridPos and Direction                                         *)
(***************************************************************************)
GridPos(x, y) == [x |-> x, y |-> y]

offset(pos, dx, dy) == [x |-> pos.x + dx, y |-> pos.y + dy]

Directions == {"None", "Up", "Down", "Left", "Right"}

delta(d) ==
    CASE d = "None"  -> <<0, 0>>
      [] d = "Up"    -> <<0, -1>>
      [] d = "Down"  -> <<0, 1>>
      [] d = "Left"  -> <<-1, 0>>
      [] d = "Right" -> <<1, 0>>

moved(pos, d) == offset(pos, delta(d)[1], delta(d)[2])

abs(n) == IF n < 0 THEN -n ELSE n

distance(a, b) == abs(a.x - b.x) + abs(a.y - b.y)

\* is_opposite without the (Right, Left) arm
is_opposite_no_right_left(d, other) ==
    \/ d = "Up" /\ other = "Down"
    \/ d = "Down" /\ other = "Up"
    \/ d = "Left" /\ other = "Right"

is_opposite(d, other) ==
    \/ d = "Up" /\ other = "Down"
    \/ d = "Down" /\ other = "Up"
    \/ d = "Left" /\ other = "Right"
    \/ d = "Right" /\ other = "Left"

(***************************************************************************)
(* state.rs: TerritoryGrid, a dense row-major array of Option<PlayerId>    *)
(***************************************************************************)
TerritoryGrid_new(width, height) ==
    [width |-> width, height |-> height,
     cells |-> [i \in 1..(width * height) |-> None]]

in_bounds(t, pos) ==
    pos.x >= 0 /\ pos.y >= 0 /\ pos.x < t.width /\ pos.y < t.height

\* the index of the Rust vector, shifted by one (sequences start at 1)
pos_to_index(t, pos) ==
    IF in_bounds(t, pos) THEN Some(pos.y * t.width + pos.x + 1) ELSE None

get_cell_owner(t, pos) ==
    IF pos_to_index(t, pos) = None THEN None
    ELSE t.cells[pos_to_index(t, pos)[1]]

\* set_cell_owner that adds the owner to the cell instead of replacing the one there
set_cell_owner_add(t, pos, owner) ==
    IF pos_to_index(t, pos) = None THEN t
    ELSE [t EXCEPT !.cells[pos_to_index(t, pos)[1]] = @ \o owner]

set_cell_owner(t, pos, owner) ==
    IF pos_to_index(t, pos) = None THEN t
    ELSE [t EXCEPT !.cells[pos_to_index(t, pos)[1]] = owner]

is_owned_by(t, pos, player_id) == get_cell_owner(t, pos) = Some(player_id)

count_owned_by(t, player_id) ==
    Cardinality({i \in DOMAIN t.cells : t.cells[i] = Some(player_id)})

get_total_cells(t) == Len(t.cells)

\* every cell of the grid in row-major order (for y { for x { .. } })
RowMajor(t) ==
    [i \in 1..(t.width * t.height) |-> GridPos((i - 1) % t.width, (i - 1) \div t.width)]

get_owned_cells(t, player_id) ==
    LET owned(pos) == is_owned_by(t, pos, player_id)
    IN  SelectSeq(RowMajor(t), owned)

(***************************************************************************)
(* systems.rs: claim_territory and the flood fill                          *)
(***************************************************************************)
\* get_neighbors without the cell below
get_neighbors_no_down(pos) == <<offset(pos, -1, 0), offset(pos, 1, 0), offset(pos, 0, -1)>>

get_neighbors(pos) ==
    <<offset(pos, -1, 0), offset(pos, 1, 0), offset(pos, 0, -1), offset(pos, 0, 1)>>

\* `if !player_cells.contains(&p) && reachable.insert(p) { queue.push_back(p) }`
Visit(st, pos, player_cells) ==
    IF pos \notin player_cells /\ pos \notin st.reachable
    THEN [reachable |-> st.reachable \cup {pos}, queue |-> Append(st.queue, pos)]
    ELSE st

RECURSIVE SeedColumns(_, _, _, _)
SeedColumns(t, x, player_cells, st) ==
    IF x >= t.width THEN st
    ELSE SeedColumns(t, x + 1, player_cells,
            Visit(Visit(st, GridPos(x, 0), player_cells),
                  GridPos(x, t.height - 1), player_cells))

RECURSIVE SeedRows(_, _, _, _)
SeedRows(t, y, player_cells, st) ==
    IF y >= t.height THEN st
    ELSE SeedRows(t, y + 1, player_cells,
            Visit(Visit(st, GridPos(0, y), player_cells),
                  GridPos(t.width - 1, y), player_cells))

RECURSIVE VisitNeighbors(_, _, _, _, _)
VisitNeighbors(t, ns, i, player_cells, st) ==
    IF i > Len(ns) THEN st
    ELSE VisitNeighbors(t, ns, i + 1, player_cells,
            IF in_bounds(t, ns[i]) THEN Visit(st, ns[i], player_cells) ELSE st)

RECURSIVE Bfs(_, _, _)
Bfs(t, player_cells, st) ==
    IF st.queue = <<>> THEN st.reachable
    ELSE Bfs(t, player_cells,
            VisitNeighbors(t, get_neighbors(Head(st.queue)), 1, player_cells,
                           [st EXCEPT !.queue = Tail(st.queue)]))

flood_fill_from_edges(t, player_id) ==
    LET scan == RowMajor(t)
        player_cells == {pos \in {scan[i] : i \in 1..Len(scan)} :
                            is_owned_by(t, pos, player_id)}
        seeded == SeedRows(t, 0, player_cells,
                     SeedColumns(t, 0, player_cells,
                                 [reachable |-> {}, queue |-> <<>>]))
        reachable == Bfs(t, player_cells, seeded)
        enclosed(pos) == pos \notin reachable /\ pos \notin player_cells
    IN  SelectSeq(scan, enclosed)

ClaimResult_default == [cells_claimed |-> 0, cells_stolen |-> 0, victims |-> <<>>]

Contains(s, v) == \E i \in 1..Len(s) : s[i] = v

\* Steal without the `contains` test: a victim is pushed once per cell
Steal_every_cell(result, previous_owner, player_id) ==
    IF previous_owner # None /\ previous_owner[1] # player_id
    THEN [result EXCEPT !.cells_stolen = @ + 1, !.victims = Append(@, previous_owner[1])]
    ELSE result

\* the accounting of one cell that had `previous_owner` (both loops of claim_territory)
Steal(result, previous_owner, player_id) ==
    IF previous_owner # None /\ previous_owner[1] # player_id
    THEN [result EXCEPT !.cells_stolen = @ + 1,
                        !.victims = IF Contains(@, previous_owner[1]) THEN @
                                    ELSE Append(@, previous_owner[1])]
    ELSE result

\* `for pos in trail`: acc is [territory, result]
RECURSIVE ClaimTrail(_, _, _, _)
ClaimTrail(acc, player_id, trail, i) ==
    IF i > Len(trail) THEN acc
    ELSE IF ~in_bounds(acc.territory, trail[i])
         THEN ClaimTrail(acc, player_id, trail, i + 1)
    ELSE LET previous_owner == get_cell_owner(acc.territory, trail[i])
             r1 == Steal(acc.result, previous_owner, player_id)
             r2 == IF previous_owner # Some(player_id)
                   THEN [r1 EXCEPT !.cells_claimed = @ + 1] ELSE r1
         IN  ClaimTrail([territory |-> set_cell_owner(acc.territory, trail[i], Some(player_id)),
                         result |-> r2], player_id, trail, i + 1)

\* `for pos in enclosed_cells`
RECURSIVE ClaimEnclosed(_, _, _, _)
ClaimEnclosed(acc, player_id, enclosed, i) ==
    IF i > Len(enclosed) THEN acc
    ELSE LET previous_owner == get_cell_owner(acc.territory, enclosed[i])
             r1 == Steal(acc.result, previous_owner, player_id)
             r2 == [r1 EXCEPT !.cells_claimed = @ + 1]
         IN  ClaimEnclosed([territory |-> set_cell_owner(acc.territory, enclosed[i], Some(player_id)),
                            result |-> r2], player_id, enclosed, i + 1)

\* claim_territory without the early return for an empty trail
claim_territory_no_return(t, player_id, trail) ==
    LET marked == ClaimTrail([territory |-> t, result |-> ClaimResult_default],
                             player_id, trail, 1)
    IN  ClaimEnclosed(marked, player_id, flood_fill_from_edges(marked.territory, player_id), 1)

\* returns the territory after the claim and the ClaimResult
claim_territory(t, player_id, trail) ==
    IF trail = <<>> THEN [territory |-> t, result |-> ClaimResult_default]
    ELSE LET marked == ClaimTrail([territory |-> t, result |-> ClaimResult_default],
                                  player_id, trail, 1)
         IN  ClaimEnclosed(marked, player_id,
                           flood_fill_from_edges(marked.territory, player_id), 1)

(***************************************************************************)
(* state.rs: Player (name and color carry no behaviour and are left out)   *)
(***************************************************************************)
Player_new(id, position) ==
    [id |-> id, position |-> position, direction |-> "None", trail |-> <<>>,
     alive |-> TRUE, score |-> 0, respawn_timer |-> 0, invulnerability_timer |-> 0]

is_invulnerable(p) == p.invulnerability_timer > 0

has_trail(p) == p.trail # <<>>

(***************************************************************************)
(* systems.rs: movement                                                    *)
(***************************************************************************)
MoveResult_default == [should_claim |-> FALSE, hit_boundary |-> FALSE, trail_to_claim |-> <<>>]

is_in_own_territory(t, player_id, pos) == is_owned_by(t, pos, player_id)

\* add_to_trail without the comparison with the last entry
add_to_trail_always(p, pos) == [p EXCEPT !.trail = Append(@, pos)]

add_to_trail(p, pos) ==
    IF p.trail = <<>> \/ p.trail[Len(p.trail)] # pos
    THEN [p EXCEPT !.trail = Append(@, pos)] ELSE p

clear_trail(p) == [p EXCEPT !.trail = <<>>]

\* move_player without the bounds test
move_player_no_bounds(ps, t, player_id) ==
    IF player_id \notin DOMAIN ps \/ ~ps[player_id].alive
    THEN [moved |-> FALSE, result |-> MoveResult_default]
    ELSE LET p0 == ps[player_id]
             new_pos == moved(p0.position, p0.direction)
             p1 == IF ~is_in_own_territory(t, player_id, new_pos)
                   THEN add_to_trail(p0, p0.position) ELSE p0
         IN  [moved |-> TRUE,
              player |-> [p1 EXCEPT !.position = new_pos],
              result |-> MoveResult_default]

\* returns the player after the move and the MoveResult
move_player(ps, t, player_id) ==
    IF player_id \notin DOMAIN ps \/ ~ps[player_id].alive
    THEN [moved |-> FALSE, result |-> MoveResult_default]
    ELSE LET p0 == ps[player_id]
             current_pos == p0.position
             new_pos == moved(current_pos, p0.direction)
             now_in_territory == is_in_own_territory(t, player_id, new_pos)
             p1 == IF ~now_in_territory THEN add_to_trail(p0, current_pos) ELSE p0
             closes == now_in_territory /\ has_trail(p1)
             p2 == IF closes THEN add_to_trail(p1, new_pos) ELSE p1
             p3 == IF closes THEN clear_trail(p2) ELSE p2
         IN  IF ~in_bounds(t, new_pos)
             THEN [moved |-> FALSE,
                   result |-> [MoveResult_default EXCEPT !.hit_boundary = TRUE]]
             ELSE [moved |-> TRUE,
                   player |-> [p3 EXCEPT !.position = new_pos],
                   result |-> [should_claim |-> closes, hit_boundary |-> FALSE,
                               trail_to_claim |-> IF closes THEN p2.trail ELSE <<>>]]

\* `for player_id in player_ids`: acc is [players, results]
RECURSIVE MoveAll(_, _, _, _)
MoveAll(acc, t, player_ids, i) ==
    IF i > Len(player_ids) THEN acc
    ELSE LET m == move_player(acc.players, t, player_ids[i])
             ps1 == IF m.moved THEN [acc.players EXCEPT ![player_ids[i]] = m.player]
                    ELSE acc.players
             rs1 == IF m.result.should_claim \/ m.result.hit_boundary
                    THEN Append(acc.results, <<player_ids[i], m.result>>)
                    ELSE acc.results
         IN  MoveAll([players |-> ps1, results |-> rs1], t, player_ids, i + 1)

\* update_movement that moves only the first of the players it collected
update_movement_first(ps, t, order) ==
    LET directed(id) == ps[id].alive /\ ps[id].direction # "None"
        player_ids == SelectSeq(order, directed)
    IN  MoveAll([players |-> ps, results |-> <<>>], t,
                IF player_ids = <<>> THEN <<>> ELSE <<player_ids[1]>>, 1)

\* order is the order in which the players map is iterated
update_movement(ps, t, order) ==
    LET directed(id) == ps[id].alive /\ ps[id].direction # "None"
    IN  MoveAll([players |-> ps, results |-> <<>>], t, SelectSeq(order, directed), 1)

\* set_player_direction that stores the direction before it tests for a reversal
set_player_direction_store_first(ps, player_id, new_direction) ==
    IF player_id \notin DOMAIN ps
    THEN [ok |-> FALSE, err |-> "Player not found", players |-> ps]
    ELSE IF ~ps[player_id].alive
    THEN [ok |-> FALSE, err |-> "Player is dead", players |-> ps]
    ELSE LET stored == [ps EXCEPT ![player_id].direction = new_direction]
         IN  IF ps[player_id].direction # "None"
                /\ is_opposite(ps[player_id].direction, new_direction)
             THEN [ok |-> FALSE, err |-> "Cannot reverse direction", players |-> stored]
             ELSE [ok |-> TRUE, err |-> "", players |-> stored]

\* the players after the call, with Ok(()) or Err(message)
set_player_direction(ps, player_id, new_direction) ==
    IF player_id \notin DOMAIN ps
    THEN [ok |-> FALSE, err |-> "Player not found", players |-> ps]
    ELSE IF ~ps[player_id].alive
    THEN [ok |-> FALSE, err |-> "Player is dead", players |-> ps]
    ELSE IF ps[player_id].direction # "None"
            /\ is_opposite(ps[player_id].direction, new_direction)
    THEN [ok |-> FALSE, err |-> "Cannot reverse direction", players |-> ps]
    ELSE [ok |-> TRUE, err |-> "",
          players |-> [ps EXCEPT ![player_id].direction = new_direction]]

direction_from_proto(value) ==
    CASE value = 1 -> "Up"
      [] value = 2 -> "Down"
      [] value = 3 -> "Left"
      [] value = 4 -> "Right"
      [] OTHER -> "None"

\* eliminate_player that leaves the direction of the player as it was
eliminate_player_keep_direction(ps, player_id, respawn_delay) ==
    IF player_id \in DOMAIN ps
    THEN [ps EXCEPT ![player_id] = [@ EXCEPT !.alive = FALSE, !.trail = <<>>,
                                              !.respawn_timer = respawn_delay]]
    ELSE ps

(***************************************************************************)
(* systems.rs: elimination, timers, spawn and respawn                      *)
(***************************************************************************)
\* the elimination that leaves the trail of the player in place
eliminate_player_keep_trail(ps, player_id, respawn_delay) ==
    IF player_id \in DOMAIN ps
    THEN [ps EXCEPT ![player_id].alive = FALSE,
                    ![player_id].direction = "None",
                    ![player_id].respawn_timer = respawn_delay]
    ELSE ps

eliminate_player(ps, player_id, respawn_delay) ==
    IF player_id \in DOMAIN ps
    THEN [ps EXCEPT ![player_id] = [@ EXCEPT !.alive = FALSE, !.trail = <<>>,
                                              !.direction = "None",
                                              !.respawn_timer = respawn_delay]]
    ELSE ps

\* the loop of update_timers with the invulnerability countdown running only
\* for alive players
RECURSIVE TimerLoop_alive(_, _, _)
TimerLoop_alive(acc, order, i) ==
    IF i > Len(order) THEN acc
    ELSE LET p0 == acc.players[order[i]]
             p1 == IF p0.alive /\ p0.invulnerability_timer > 0
                   THEN [p0 EXCEPT !.invulnerability_timer = @ - 1] ELSE p0
             counting == ~p1.alive /\ p1.respawn_timer > 0
             p2 == IF counting THEN [p1 EXCEPT !.respawn_timer = @ - 1] ELSE p1
         IN  TimerLoop_alive([players |-> [acc.players EXCEPT ![order[i]] = p2],
                              ready |-> IF counting /\ p2.respawn_timer = 0
                                        THEN Append(acc.ready, p2.id) ELSE acc.ready],
                             order, i + 1)

\* `for player in state.players.values_mut()`: acc is [players, ready]
RECURSIVE TimerLoop(_, _, _)
TimerLoop(acc, order, i) ==
    IF i > Len(order) THEN acc
    ELSE LET p0 == acc.players[order[i]]
             p1 == IF p0.invulnerability_timer > 0
                   THEN [p0 EXCEPT !.invulnerability_timer = @ - 1] ELSE p0
             counting == ~p1.alive /\ p1.respawn_timer > 0
             p2 == IF counting THEN [p1 EXCEPT !.respawn_timer = @ - 1] ELSE p1
         IN  TimerLoop([players |-> [acc.players EXCEPT ![order[i]] = p2],
                        ready |-> IF counting /\ p2.respawn_timer = 0
                                  THEN Append(acc.ready, p2.id) ELSE acc.ready],
                       order, i + 1)

\* update_timers that reports nobody as ready to respawn
update_timers_forget(ps, order) ==
    [TimerLoop([players |-> ps, ready |-> <<>>], order, 1) EXCEPT !.ready = <<>>]

update_timers(ps, order) == TimerLoop([players |-> ps, ready |-> <<>>], order, 1)

RECURSIVE GrantLoop(_, _, _, _, _, _)
GrantLoop(t, player_id, center, half, dx, dy) ==
    IF dy > half THEN t
    ELSE IF dx > half THEN GrantLoop(t, player_id, center, half, -half, dy + 1)
    ELSE GrantLoop(IF in_bounds(t, offset(center, dx, dy))
                   THEN set_cell_owner(t, offset(center, dx, dy), Some(player_id))
                   ELSE t,
                   player_id, center, half, dx + 1, dy)

grant_starting_territory(t, player_id, center, size) ==
    GrantLoop(t, player_id, center, size \div 2, -(size \div 2), -(size \div 2))

is_spawn_area_clear(t, center, size) ==
    LET half == size \div 2
        claimed_count == Cardinality({d \in (-half..half) \X (-half..half) :
                            get_cell_owner(t, offset(center, d[2], d[1])) # None})
        total_cells == size * size
    IN  claimed_count < total_cells \div 4

Min(S) == CHOOSE m \in S : \A n \in S : m <= n

Max(S) == CHOOSE m \in S : \A n \in S : m >= n

Max2(a, b) == IF a >= b THEN a ELSE b

\* the positions one radius of find_spawn_position examines, in the order of its
\* dx and dy loops: those on the ring that lie inside the margin
RingScan(t, cfg, center, radius) ==
    LET side == 2 * radius + 1
        margin == cfg.starting_territory_size
        square == [k \in 1..(side * side) |->
                     offset(center, ((k - 1) \div side) - radius, ((k - 1) % side) - radius)]
        examined(pos) ==
            /\ abs(pos.x - center.x) = radius \/ abs(pos.y - center.y) = radius
            /\ ~(\/ pos.x < margin \/ pos.x >= t.width - margin
                 \/ pos.y < margin \/ pos.y >= t.height - margin)
    IN  SelectSeq(square, examined)

\* the positions the radius loop examines from `radius` on, in order
RECURSIVE SpawnScan(_, _, _, _)
SpawnScan(t, cfg, center, radius) ==
    IF radius > Max2(t.width, t.height) \div 2 THEN <<>>
    ELSE RingScan(t, cfg, center, radius) \o SpawnScan(t, cfg, center, radius + 1)

\* the first examined position that is far enough from every alive player and
\* whose area is clear; failing that, best_pos: the first examined position at the
\* greatest distance from the nearest alive player, if that distance exceeds 0
\* the search whose empty-world fast path forgets to halve the grid size
find_spawn_position_no_half(ps, t, cfg) ==
    Some(GridPos(cfg.grid_width, cfg.grid_height))

\* find_spawn_position that returns the last acceptable cell of the scan
find_spawn_position_last(ps, t, cfg) ==
    LET occupied_positions == {ps[id].position : id \in {i \in DOMAIN ps : ps[i].alive}}
        center == GridPos(t.width \div 2, t.height \div 2)
        examined == SpawnScan(t, cfg, center, 0)
        min_dist(pos) == Min({distance(pos, other) : other \in occupied_positions})
        accepted(pos) == /\ min_dist(pos) >= cfg.min_spawn_distance
                         /\ is_spawn_area_clear(t, pos, cfg.starting_territory_size)
        acceptable == SelectSeq(examined, accepted)
        best_min_distance == Max({0} \cup {min_dist(examined[k]) : k \in DOMAIN examined})
        best(pos) == min_dist(pos) = best_min_distance
    IN  IF occupied_positions = {} THEN Some(center)
        ELSE IF acceptable # <<>> THEN Some(acceptable[Len(acceptable)])
        ELSE IF best_min_distance > 0 THEN Some(Head(SelectSeq(examined, best)))
        ELSE Some(center)

find_spawn_position(ps, t, cfg) ==
    LET occupied_positions == {ps[id].position : id \in {i \in DOMAIN ps : ps[i].alive}}
        center == GridPos(t.width \div 2, t.height \div 2)
        examined == SpawnScan(t, cfg, center, 0)
        min_dist(pos) == Min({distance(pos, other) : other \in occupied_positions})
        accepted(pos) == /\ min_dist(pos) >= cfg.min_spawn_distance
                         /\ is_spawn_area_clear(t, pos, cfg.starting_territory_size)
        best_min_distance == Max({0} \cup {min_dist(examined[k]) : k \in DOMAIN examined})
        best(pos) == min_dist(pos) = best_min_distance
    IN  IF occupied_positions = {} THEN Some(center)
        ELSE IF SelectSeq(examined, accepted) # <<>> THEN Some(Head(SelectSeq(examined, accepted)))
        ELSE IF best_min_distance > 0 THEN Some(Head(SelectSeq(examined, best)))
        ELSE Some(center)

\* returns the players and the territory after the respawn
\* the respawn that does not renew the invulnerability of the player
respawn_player_vulnerable(ps, t, player_id, cfg) ==
    LET spawn_pos == find_spawn_position(ps, t, cfg)[1]
    IN  [players |-> IF player_id \in DOMAIN ps
                     THEN [ps EXCEPT ![player_id] =
                              [@ EXCEPT !.position = spawn_pos, !.alive = TRUE,
                                        !.direction = "None", !.trail = <<>>]]
                     ELSE ps,
         territory |-> grant_starting_territory(t, player_id, spawn_pos,
                                                cfg.starting_territory_size),
         spawn_pos |-> Some(spawn_pos)]

respawn_player(ps, t, player_id, cfg) ==
    LET spawn_pos == find_spawn_position(ps, t, cfg)[1]
    IN  [players |-> IF player_id \in DOMAIN ps
                     THEN [ps EXCEPT ![player_id] =
                              [@ EXCEPT !.position = spawn_pos, !.alive = TRUE,
                                        !.direction = "None", !.trail = <<>>,
                                        !.invulnerability_timer = cfg.invulnerability_ticks]]
                     ELSE ps,
         territory |-> grant_starting_territory(t, player_id, spawn_pos,
                                                cfg.starting_territory_size),
         spawn_pos |-> Some(spawn_pos)]


(***************************************************************************)
(* systems.rs: check_collisions.  An Elimination is [victim, killer,       *)
(* reason]; killer 0 stands for "no attacker".                             *)
(***************************************************************************)
Elimination(victim, killer, reason) ==
    [victim |-> victim, killer |-> killer, reason |-> reason]

\* trail_map.get(pos): the last player of the iteration whose trail holds pos
RECURSIVE TrailMapGet(_, _, _, _)
TrailMapGet(ps, alive_players, i, pos) ==
    IF i = 0 THEN None
    ELSE IF Contains(ps[alive_players[i]].trail, pos) THEN Some(alive_players[i])
    ELSE TrailMapGet(ps, alive_players, i - 1, pos)

\* the trail-cut / self-collision loop that examines invulnerable players too
RECURSIVE TrailLoop_invulnerable(_, _, _, _)
TrailLoop_invulnerable(acc, ps, alive_players, i) ==
    IF i > Len(alive_players) THEN acc
    ELSE LET player_id == alive_players[i]
             hit == TrailMapGet(ps, alive_players, Len(alive_players),
                                ps[player_id].position)
         IN  IF hit = None
             THEN TrailLoop_invulnerable(acc, ps, alive_players, i + 1)
             ELSE IF hit[1] = player_id
                  THEN TrailLoop_invulnerable(
                         [eliminations |-> Append(acc.eliminations,
                                             Elimination(player_id, 0, "SelfCollision")),
                          already_eliminated |-> acc.already_eliminated \cup {player_id}],
                         ps, alive_players, i + 1)
             ELSE IF hit[1] \notin acc.already_eliminated /\ ~is_invulnerable(ps[hit[1]])
                  THEN TrailLoop_invulnerable(
                         [eliminations |-> Append(acc.eliminations,
                                             Elimination(hit[1], player_id, "TrailCut")),
                          already_eliminated |-> acc.already_eliminated \cup {hit[1]}],
                         ps, alive_players, i + 1)
             ELSE TrailLoop_invulnerable(acc, ps, alive_players, i + 1)

\* the trail-cut / self-collision loop: acc is [eliminations, already_eliminated]
RECURSIVE TrailLoop(_, _, _, _)
TrailLoop(acc, ps, alive_players, i) ==
    IF i > Len(alive_players) THEN acc
    ELSE LET player_id == alive_players[i]
             hit == TrailMapGet(ps, alive_players, Len(alive_players),
                                ps[player_id].position)
         IN  IF is_invulnerable(ps[player_id]) \/ hit = None
             THEN TrailLoop(acc, ps, alive_players, i + 1)
             ELSE IF hit[1] = player_id
                  THEN TrailLoop(
                         [eliminations |-> Append(acc.eliminations,
                                             Elimination(player_id, 0, "SelfCollision")),
                          already_eliminated |-> acc.already_eliminated \cup {player_id}],
                         ps, alive_players, i + 1)
             ELSE IF hit[1] \notin acc.already_eliminated /\ ~is_invulnerable(ps[hit[1]])
                  THEN TrailLoop(
                         [eliminations |-> Append(acc.eliminations,
                                             Elimination(hit[1], player_id, "TrailCut")),
                          already_eliminated |-> acc.already_eliminated \cup {hit[1]}],
                         ps, alive_players, i + 1)
             ELSE TrailLoop(acc, ps, alive_players, i + 1)

\* colliding_players.sort_by(|a, b| b.1.cmp(&a.1)): a stable sort, highest score first
RECURSIVE InsertByScore(_, _)
InsertByScore(sorted, c) ==
    IF sorted = <<>> THEN <<c>>
    ELSE IF sorted[Len(sorted)].score >= c.score THEN Append(sorted, c)
    ELSE Append(InsertByScore(SubSeq(sorted, 1, Len(sorted) - 1), c), sorted[Len(sorted)])

\* the sort that leaves the players in the order of the map
SortByScore_unsorted(s) == s

RECURSIVE SortByScore(_)
SortByScore(s) ==
    IF s = <<>> THEN <<>>
    ELSE InsertByScore(SortByScore(SubSeq(s, 1, Len(s) - 1)), s[Len(s)])

RECURSIVE EliminateAll(_, _, _, _)
EliminateAll(acc, victims, i, killer) ==
    IF i > Len(victims) THEN acc
    ELSE EliminateAll(
           [eliminations |-> Append(acc.eliminations,
                               Elimination(victims[i].id, killer, "HeadCollision")),
            already_eliminated |-> acc.already_eliminated \cup {victims[i].id}],
           victims, i + 1, killer)

\* one entry of position_map, without the branch for a shared top score
HeadOn_no_tie(acc, ps, alive_players, position) ==
    LET here(id) == ps[id].position = position
        players_at_pos == SelectSeq(alive_players, here)
        fresh(id) == id \notin acc.already_eliminated
        entry(id) == [id |-> id, score |-> ps[id].score, invuln |-> is_invulnerable(ps[id])]
        present == SelectSeq(players_at_pos, fresh)
        colliding_players == SortByScore([k \in 1..Len(present) |-> entry(present[k])])
        vulnerable(c) == ~c.invuln
        vulnerable_players == SelectSeq(colliding_players, vulnerable)
    IN  IF Len(players_at_pos) < 2 \/ Len(vulnerable_players) < 2 THEN acc
        ELSE EliminateAll(acc, Tail(vulnerable_players), 1, vulnerable_players[1].id)

\* one entry of position_map
HeadOn(acc, ps, alive_players, position) ==
    LET here(id) == ps[id].position = position
        players_at_pos == SelectSeq(alive_players, here)
        fresh(id) == id \notin acc.already_eliminated
        entry(id) == [id |-> id, score |-> ps[id].score, invuln |-> is_invulnerable(ps[id])]
        present == SelectSeq(players_at_pos, fresh)
        colliding_players == SortByScore([k \in 1..Len(present) |-> entry(present[k])])
        vulnerable(c) == ~c.invuln
        vulnerable_players == SelectSeq(colliding_players, vulnerable)
        top(c) == c.score = vulnerable_players[1].score
        tied_for_first == SelectSeq(vulnerable_players, top)
    IN  IF Len(players_at_pos) < 2 \/ Len(vulnerable_players) < 2 THEN acc
        ELSE IF Len(tied_for_first) >= 2
             THEN EliminateAll(acc, tied_for_first, 1, 0)
        ELSE EliminateAll(acc, Tail(vulnerable_players), 1, vulnerable_players[1].id)

\* `for (position, players_at_pos) in &position_map`
RECURSIVE HeadOnLoop(_, _, _, _, _)
HeadOnLoop(acc, ps, alive_players, positions, i) ==
    IF i > Len(positions) THEN acc
    ELSE HeadOnLoop(HeadOn(acc, ps, alive_players, positions[i]),
                    ps, alive_players, positions, i + 1)

\* order: the iteration order of the players map; positions: that of position_map
check_collisions(ps, order, positions) ==
    LET living(id) == ps[id].alive
        alive_players == SelectSeq(order, living)
        cuts == TrailLoop([eliminations |-> <<>>, already_eliminated |-> {}],
                          ps, alive_players, 1)
    IN  HeadOnLoop(cuts, ps, alive_players, positions, 1).eliminations

(***************************************************************************)
(* systems.rs: update_scores, computed in f32 as the code does.  A float   *)
(* is [m, e], the value m * 2^e with 2^23 <= m < 2^24, or m = 0.           *)
(***************************************************************************)
RECURSIVE F32_normal(_, _)
F32_normal(m, e) ==
    IF m = 0 THEN [m |-> 0, e |-> 0]
    ELSE IF m < 2^(16) THEN F32_normal(256 * m, e - 8)
    ELSE IF m < 2^(23) THEN F32_normal(2 * m, e - 1)
    ELSE IF m >= 2^(24) THEN F32_normal(m \div 2, e + 1)
    ELSE [m |-> m, e |-> e]

\* round m * 2^e (plus a non-zero tail if sticky) to 24 bits, ties to even
RECURSIVE F32_round(_, _, _)
F32_round(m, e, sticky) ==
    IF m < 2^(24) THEN F32_normal(m, e)
    ELSE IF m >= 2^(25) THEN F32_round(m \div 2, e + 1, sticky \/ m % 2 = 1)
    ELSE LET q == m \div 2
             up == m % 2 = 1 /\ (sticky \/ q % 2 = 1)
         IN  F32_normal(IF up THEN q + 1 ELSE q, e + 1)

F32_from(n) == F32_round(n, 0, FALSE)

\* n more quotient bits of r / d by long division, six bits at a time while six
\* are left: <<quotient, remainder>>
RECURSIVE DivBits(_, _, _, _)
DivBits(q, r, d, n) ==
    IF n = 0 THEN <<q, r>>
    ELSE IF n >= 6 THEN DivBits(64 * q + ((64 * r) \div d), (64 * r) % d, d, n - 6)
    ELSE IF 2 * r >= d THEN DivBits(2 * q + 1, 2 * r - d, d, n - 1)
    ELSE DivBits(2 * q, 2 * r, d, n - 1)

F32_div(a, b) ==
    IF a.m = 0 THEN a
    ELSE LET qr == DivBits(a.m \div b.m, a.m % b.m, b.m, 25)
         IN  F32_round(qr[1], a.e - b.e - 25, qr[2] # 0)

\* a * k for a float k that is a small whole number (100.0)
F32_mul(a, k) == F32_round(a.m * k, a.e, FALSE)

\* `as u32`: truncation toward zero
F32_to_u32(a) ==
    IF a.e >= 0 THEN a.m * 2^(a.e)
    ELSE IF -a.e > 24 THEN 0
    ELSE a.m \div 2^(-a.e)

get_ownership_percentage(t, player_id) ==
    F32_mul(F32_div(F32_from(count_owned_by(t, player_id)), F32_from(get_total_cells(t))),
            100)

update_scores(ps, t) ==
    [id \in DOMAIN ps |->
        [ps[id] EXCEPT !.score = F32_to_u32(F32_mul(get_ownership_percentage(t, id), 100))]]


(***************************************************************************)
(* mod.rs: PaperioGame.  `last` records what the last call did: the call,  *)
(* its result, and for a tick the state between its phases.                *)
(***************************************************************************)
NoCall ==
    [op |-> "new", player_id |-> 0, input |-> <<>>, ok |-> TRUE, err |-> "",
     before |-> <<>>, result |-> <<>>,
     after_timers |-> <<>>, respawns |-> <<>>,
     after_respawn |-> <<>>, after_respawn_territory |-> <<>>,
     after_movement |-> <<>>, move_results |-> <<>>,
     claims |-> <<>>, collisions |-> <<>>, applied |-> <<>>, eliminated |-> <<>>]

\* `for player_id in ready_to_respawn`: acc is [players, territory, respawns]
RECURSIVE RespawnLoop(_, _, _, _)
RespawnLoop(acc, ready, i, cfg) ==
    IF i > Len(ready) THEN acc
    ELSE LET r == respawn_player(acc.players, acc.territory, ready[i], cfg)
         IN  RespawnLoop(IF r.spawn_pos # None
                         THEN [players |-> r.players, territory |-> r.territory,
                               respawns |-> Append(acc.respawns, ready[i])]
                         ELSE acc,
                         ready, i + 1, cfg)

\* the loop over the move results in which a boundary elimination also releases
\* the cells of the eliminated player
RECURSIVE MoveResultLoop_release(_, _, _, _)
MoveResultLoop_release(acc, move_results, i, cfg) ==
    IF i > Len(move_results) THEN acc
    ELSE LET player_id == move_results[i][1]
             move_result == move_results[i][2]
             claim == claim_territory(acc.territory, player_id, move_result.trail_to_claim)
         IN  MoveResultLoop_release(
               IF move_result.hit_boundary
               THEN [acc EXCEPT
                       !.players = eliminate_player(@, player_id, cfg.respawn_delay_ticks),
                       !.territory.cells = [k \in DOMAIN @ |->
                                              IF @[k] = Some(player_id) THEN None ELSE @[k]],
                       !.eliminated = Append(@, player_id),
                       !.applied = Append(@, Elimination(player_id, 0, "Boundary"))]
               ELSE IF move_result.should_claim
               THEN [acc EXCEPT
                       !.territory = claim.territory,
                       !.claims = Append(@, [player_id |-> player_id,
                                             trail |-> move_result.trail_to_claim,
                                             result |-> claim.result])]
               ELSE acc,
               move_results, i + 1, cfg)

\* the loop over the move results in which a completed trail is recorded but
\* the grid is left as it was
RECURSIVE MoveResultLoop_no_claim(_, _, _, _)
MoveResultLoop_no_claim(acc, move_results, i, cfg) ==
    IF i > Len(move_results) THEN acc
    ELSE LET player_id == move_results[i][1]
             move_result == move_results[i][2]
             claim == claim_territory(acc.territory, player_id, move_result.trail_to_claim)
         IN  MoveResultLoop_no_claim(
               IF move_result.hit_boundary
               THEN [acc EXCEPT
                       !.players = eliminate_player(@, player_id, cfg.respawn_delay_ticks),
                       !.eliminated = Append(@, player_id),
                       !.applied = Append(@, Elimination(player_id, 0, "Boundary"))]
               ELSE IF move_result.should_claim
               THEN [acc EXCEPT
                       !.claims = Append(@, [player_id |-> player_id,
                                             trail |-> move_result.trail_to_claim,
                                             result |-> claim.result])]
               ELSE acc,
               move_results, i + 1, cfg)

\* `for (player_id, move_result) in move_results`:
\* acc is [players, territory, eliminated, applied, claims]
RECURSIVE MoveResultLoop(_, _, _, _)
MoveResultLoop(acc, move_results, i, cfg) ==
    IF i > Len(move_results) THEN acc
    ELSE LET player_id == move_results[i][1]
             move_result == move_results[i][2]
             claim == claim_territory(acc.territory, player_id, move_result.trail_to_claim)
         IN  MoveResultLoop(
               IF move_result.hit_boundary
               THEN [acc EXCEPT
                       !.players = eliminate_player(@, player_id, cfg.respawn_delay_ticks),
                       !.eliminated = Append(@, player_id),
                       !.applied = Append(@, Elimination(player_id, 0, "Boundary"))]
               ELSE IF move_result.should_claim
               THEN [acc EXCEPT
                       !.territory = claim.territory,
                       !.claims = Append(@, [player_id |-> player_id,
                                             trail |-> move_result.trail_to_claim,
                                             result |-> claim.result])]
               ELSE acc,
               move_results, i + 1, cfg)

\* the loop over the eliminations without the check that the victim is not yet
\* in the eliminated list
RECURSIVE EliminationLoop_repeat(_, _, _, _)
EliminationLoop_repeat(acc, eliminations, i, cfg) ==
    IF i > Len(eliminations) THEN acc
    ELSE EliminationLoop_repeat(
           [acc EXCEPT
              !.players = eliminate_player(@, eliminations[i].victim,
                                           cfg.respawn_delay_ticks),
              !.eliminated = Append(@, eliminations[i].victim),
              !.applied = Append(@, eliminations[i])],
           eliminations, i + 1, cfg)

\* `for elimination in eliminations`: acc is [players, eliminated, applied]
RECURSIVE EliminationLoop(_, _, _, _)
EliminationLoop(acc, eliminations, i, cfg) ==
    IF i > Len(eliminations) THEN acc
    ELSE EliminationLoop(
           IF ~Contains(acc.eliminated, eliminations[i].victim)
           THEN [acc EXCEPT
                   !.players = eliminate_player(@, eliminations[i].victim,
                                                cfg.respawn_delay_ticks),
                   !.eliminated = Append(@, eliminations[i].victim),
                   !.applied = Append(@, eliminations[i])]
           ELSE acc,
           eliminations, i + 1, cfg)

\* the positions that hold two or more alive players
CollidingPositions(ps) ==
    {pos \in {ps[id].position : id \in DOMAIN ps} :
        Cardinality({id \in DOMAIN ps : ps[id].alive /\ ps[id].position = pos}) >= 2}

(***************************************************************************)
(* PaperioGame::tick, phase by phase.  s is [players, territory, trace]:   *)
(* the state so far and the record of the call so far.                     *)
(***************************************************************************)
\* `let ready_to_respawn = systems::update_timers(&mut self.state)`
tick_timers(s, order) ==
    LET timers == update_timers(s.players, order)
    IN  [players |-> timers.players, territory |-> s.territory, ready |-> timers.ready,
         trace |-> [s.trace EXCEPT !.after_timers = timers.players]]

\* `for player_id in ready_to_respawn`
tick_respawns(s, cfg) ==
    LET spawned == RespawnLoop([players |-> s.players, territory |-> s.territory,
                                respawns |-> <<>>], s.ready, 1, cfg)
    IN  [players |-> spawned.players, territory |-> spawned.territory,
         trace |-> [s.trace EXCEPT !.respawns = spawned.respawns,
                                   !.after_respawn = spawned.players,
                                   !.after_respawn_territory = spawned.territory]]

\* `let move_results = systems::update_movement(...)`
tick_movement(s, order) ==
    LET mv == update_movement(s.players, s.territory, order)
    IN  [players |-> mv.players, territory |-> s.territory,
         trace |-> [s.trace EXCEPT !.after_movement = mv.players,
                                   !.move_results = mv.results]]

\* `for (player_id, move_result) in move_results`
tick_move_results(s, cfg) ==
    LET handled == MoveResultLoop([players |-> s.players, territory |-> s.territory,
                                   eliminated |-> <<>>, applied |-> <<>>, claims |-> <<>>],
                                  s.trace.move_results, 1, cfg)
    IN  [players |-> handled.players, territory |-> handled.territory,
         trace |-> [s.trace EXCEPT !.eliminated = handled.eliminated,
                                   !.applied = handled.applied,
                                   !.claims = handled.claims]]

\* `let eliminations = systems::check_collisions(&self.state)`
tick_collisions(s, order, positions) ==
    [s EXCEPT !.trace.collisions = check_collisions(s.players, order, positions)]

\* `for elimination in eliminations`
tick_eliminations(s, cfg) ==
    LET final == EliminationLoop([players |-> s.players,
                                  eliminated |-> s.trace.eliminated,
                                  applied |-> s.trace.applied],
                                 s.trace.collisions, 1, cfg)
    IN  [players |-> final.players, territory |-> s.territory,
         trace |-> [s.trace EXCEPT !.eliminated = final.eliminated,
                                   !.applied = final.applied]]

\* `systems::update_scores(&mut self.state)`
tick_scores(s) == [s EXCEPT !.players = update_scores(s.players, s.territory)]

\* PaperioGame::tick up to the claims
tick_first(ps, t, cfg, order) ==
    tick_move_results(
      tick_movement(
        tick_respawns(
          tick_timers([players |-> ps, territory |-> t,
                       trace |-> [NoCall EXCEPT !.op = "tick",
                                                !.before = [players |-> ps,
                                                            territory |-> t]]],
                      order),
          cfg),
        order),
      cfg)

\* PaperioGame::tick from the collision check on
tick_rest(first, cfg, order, positions) ==
    tick_scores(tick_eliminations(tick_collisions(first, order, positions), cfg))

Orders(S) == {o \in [1..Cardinality(S) -> S] : \A i, j \in DOMAIN o : i # j => o[i] # o[j]}

\* PaperioGame::tick without its first statement, `self.tick += 1`
TickBody ==
    /\ \E order \in Orders(DOMAIN players) :
       \E first \in {tick_first(players, territory, config, order)} :
       \E positions \in Orders(CollidingPositions(first.players)) :
       \E r \in {tick_rest(first, config, order, positions)} :
          /\ players' = r.players
          /\ territory' = r.territory
          /\ last' = r.trace
    /\ UNCHANGED <<config, joins,
                 room_manager, session_manager>>

TickCall == TickBody /\ tick' = tick + 1

Tick == tick < MaxTicks /\ TickCall

\* PaperioInput::decode: None for bytes that do not decode, else the direction field
Inputs == {None} \cup {Some(code) : code \in 0..5}

\* the players after the call, with Ok(()) or Err(message)
handle_input(ps, player_id, input) ==
    IF input = None
    THEN [ok |-> FALSE, err |-> "Failed to decode input", players |-> ps]
    ELSE set_player_direction(ps, player_id, direction_from_proto(input[1]))

HandleInput(player_id, input) ==
    /\ players' = handle_input(players, player_id, input).players
    /\ last' = [NoCall EXCEPT !.op = "handle_input",
                              !.before = [territory |-> territory]]
    /\ UNCHANGED <<territory, tick, config, joins,
                 room_manager, session_manager>>

\* the same call, with its arguments, its result and the state before it on record
HandleInputCall(player_id, input) ==
    LET r == handle_input(players, player_id, input)
    IN  /\ players' = r.players
        /\ last' = [NoCall EXCEPT !.op = "handle_input", !.player_id = player_id,
                                  !.input = input, !.ok = r.ok, !.err = r.err,
                                  !.before = [players |-> players, territory |-> territory,
                                              tick |-> tick]]
        /\ UNCHANGED <<territory, tick, config, joins,
                 room_manager, session_manager>>

\* the join that leaves the new player without its invulnerability
player_joined_vulnerable(ps, t, cfg, player_id) ==
    LET spawn_pos == find_spawn_position(ps, t, cfg)
        player == Player_new(player_id, spawn_pos[1])
        inserted == [id \in DOMAIN ps \cup {player_id} |->
                        IF id = player_id THEN player ELSE ps[id]]
        granted == grant_starting_territory(t, player_id, spawn_pos[1],
                                            cfg.starting_territory_size)
    IN  [ok |-> TRUE, err |-> "", players |-> update_scores(inserted, granted),
         territory |-> granted]

\* the players and the grid after the call, with Ok or Err(message)
player_joined(ps, t, cfg, player_id) ==
    LET spawn_pos == find_spawn_position(ps, t, cfg)
        player == [Player_new(player_id, spawn_pos[1]) EXCEPT
                      !.invulnerability_timer = cfg.invulnerability_ticks]
        inserted == [id \in DOMAIN ps \cup {player_id} |->
                        IF id = player_id THEN player ELSE ps[id]]
        granted == grant_starting_territory(t, player_id, spawn_pos[1],
                                            cfg.starting_territory_size)
    IN  IF spawn_pos = None
        THEN [ok |-> FALSE, err |-> "No valid spawn position", players |-> ps,
              territory |-> t]
        ELSE [ok |-> TRUE, err |-> "", players |-> update_scores(inserted, granted),
              territory |-> granted]

JoinCall(player_id) ==
    /\ joins' = joins + 1
    /\ \E r \in {player_joined(players, territory, config, player_id)} :
          /\ players' = r.players
          /\ territory' = r.territory
          /\ last' = [NoCall EXCEPT !.op = "player_joined", !.player_id = player_id,
                                    !.ok = r.ok, !.err = r.err]
    /\ UNCHANGED <<tick, config,
                 room_manager, session_manager>>

PlayerJoined(player_id) == joins < MaxJoins /\ JoinCall(player_id)

\* the same call, with the state before it on record
PlayerJoinedCall(player_id) ==
    /\ last.op = "new"
    /\ \E r \in {player_joined(players, territory, config, player_id)} :
          /\ players' = r.players
          /\ territory' = r.territory
          /\ last' = [NoCall EXCEPT !.op = "player_joined", !.player_id = player_id,
                                    !.ok = r.ok, !.err = r.err,
                                    !.before = [players |-> players,
                                                territory |-> territory]]
    /\ UNCHANGED <<tick, config, joins,
                 room_manager, session_manager>>

\* the release loop that releases nothing
ReleaseCells_nothing(t, owned_cells, i) == t

\* for pos in owned_cells
RECURSIVE ReleaseCells(_, _, _)
ReleaseCells(t, owned_cells, i) ==
    IF i > Len(owned_cells) THEN t
    ELSE ReleaseCells(set_cell_owner(t, owned_cells[i], None), owned_cells, i + 1)

\* the removal of the player's record without the release of its cells
player_left_keep_cells(ps, t, player_id) ==
    [players |-> [id \in DOMAIN ps \ {player_id} |-> ps[id]], territory |-> t]

\* the players and the grid after the call
player_left(ps, t, player_id) ==
    IF player_id \in DOMAIN ps
    THEN [players |-> [id \in DOMAIN ps \ {player_id} |-> ps[id]],
          territory |-> ReleaseCells(t, get_owned_cells(t, player_id), 1)]
    ELSE [players |-> ps, territory |-> t]

PlayerLeft(player_id) ==
    /\ players' = player_left(players, territory, player_id).players
    /\ territory' = player_left(players, territory, player_id).territory
    /\ last' = [NoCall EXCEPT !.op = "player_left", !.player_id = player_id]
    /\ UNCHANGED <<tick, config, joins,
                 room_manager, session_manager>>

\* the same call, with the state before it on record
PlayerLeftCall(player_id) ==
    /\ last.op = "new"
    /\ players' = player_left(players, territory, player_id).players
    /\ territory' = player_left(players, territory, player_id).territory
    /\ last' = [NoCall EXCEPT !.op = "player_left", !.player_id = player_id,
                              !.before = [players |-> players, territory |-> territory]]
    /\ UNCHANGED <<tick, config, joins,
                 room_manager, session_manager>>

(***************************************************************************)
(* room/mod.rs: Room and RoomManager.  A room code is a string, the empty  *)
(* string asks for a generated code.                                       *)
(***************************************************************************)
MaxPlayersPerRoom == 2
RoomPlayerIds == 1..3
RoomCodes == {"A", "B", "C"}
RoomNames == {"ann"}

\* HashMap::insert and HashMap::remove
HashMap_insert(map, key, value) ==
    [k \in DOMAIN map \cup {key} |-> IF k = key THEN value ELSE map[k]]

HashMap_remove(map, key) == [k \in DOMAIN map \ {key} |-> map[k]]

Room_new(code, max_players) ==
    [code |-> code, players |-> <<>>, state |-> "Waiting", max_players |-> max_players]

\* Result<(), RoomError> with the room after the call
add_player(room, player_id, name) ==
    IF room.state # "Waiting"
    THEN [ok |-> FALSE, err |-> "GameInProgress", room |-> room]
    ELSE IF Cardinality(DOMAIN room.players) >= room.max_players
    THEN [ok |-> FALSE, err |-> "RoomFull", room |-> room]
    ELSE IF player_id \in DOMAIN room.players
    THEN [ok |-> FALSE, err |-> "AlreadyInRoom", room |-> room]
    ELSE [ok |-> TRUE, err |-> "",
          room |-> [room EXCEPT !.players =
                       HashMap_insert(@, player_id,
                                      [player_id |-> player_id, name |-> name,
                                       ready |-> FALSE])]]

remove_player(room, player_id) ==
    [room EXCEPT !.players = HashMap_remove(@, player_id)]

Room_set_ready(room, player_id, ready) ==
    IF player_id \notin DOMAIN room.players
    THEN [ok |-> FALSE, err |-> "NotInRoom", room |-> room]
    ELSE [ok |-> TRUE, err |-> "",
          room |-> [room EXCEPT !.players[player_id].ready = ready]]

all_ready(room) ==
    /\ DOMAIN room.players # {}
    /\ \A p \in DOMAIN room.players : room.players[p].ready

player_count(room) == Cardinality(DOMAIN room.players)

is_empty(room) == DOMAIN room.players = {}

RoomManager_new(max_players_per_room) ==
    [rooms |-> <<>>, player_room |-> <<>>,
     max_players_per_room |-> max_players_per_room]

\* the codes generate_room_code can return: any code that no room has
generate_room_code(m) == RoomCodes \ DOMAIN m.rooms

\* leave_room that keeps a room nobody is left in
leave_room_keep_empty(m, player_id) ==
    IF player_id \notin DOMAIN m.player_room
    THEN [room_code |-> None, manager |-> m]
    ELSE LET room_code == m.player_room[player_id]
             removed == [m EXCEPT !.player_room = HashMap_remove(@, player_id)]
         IN  [room_code |-> Some(room_code),
              manager |->
                 IF room_code \in DOMAIN removed.rooms
                 THEN [removed EXCEPT !.rooms[room_code] = remove_player(@, player_id)]
                 ELSE removed]

\* Option<String> with the manager after the call
leave_room(m, player_id) ==
    IF player_id \notin DOMAIN m.player_room
    THEN [room_code |-> None, manager |-> m]
    ELSE LET room_code == m.player_room[player_id]
             removed == [m EXCEPT !.player_room = HashMap_remove(@, player_id)]
         IN  [room_code |-> Some(room_code),
              manager |->
                 IF room_code \in DOMAIN removed.rooms
                 THEN LET room == remove_player(removed.rooms[room_code], player_id)
                      IN  IF is_empty(room)
                          THEN [removed EXCEPT !.rooms = HashMap_remove(@, room_code)]
                          ELSE [removed EXCEPT !.rooms[room_code] = room]
                 ELSE removed]

\* the manager after the first statement of join_room: a player that is in a
\* room leaves it
join_room_left(m, player_id) ==
    IF player_id \in DOMAIN m.player_room THEN leave_room(m, player_id).manager ELSE m

\* Result<&Room, RoomError> with the manager after the call; generated is the
\* code generate_room_code returns when it is called
join_room(m, room_code, player_id, player_name, generated) ==
    LET left == join_room_left(m, player_id)
        create == room_code = "" \/ room_code \notin DOMAIN left.rooms
        code == IF create /\ room_code = "" THEN generated ELSE room_code
        created == IF create
                   THEN [left EXCEPT !.rooms =
                            HashMap_insert(@, code,
                                           Room_new(code, left.max_players_per_room))]
                   ELSE left
        added == add_player(created.rooms[code], player_id, player_name)
    IN  IF ~added.ok
        THEN [ok |-> FALSE, err |-> added.err, code |-> code, manager |-> created]
        ELSE [ok |-> TRUE, err |-> "", code |-> code,
              manager |-> [created EXCEPT
                              !.rooms = HashMap_insert(@, code, added.room),
                              !.player_room = HashMap_insert(@, player_id, code)]]

\* Result<&Room, RoomError> with the manager after the call
set_ready(m, player_id, ready) ==
    IF player_id \notin DOMAIN m.player_room
    THEN [ok |-> FALSE, err |-> "NotInRoom", manager |-> m]
    ELSE LET room_code == m.player_room[player_id]
         IN  IF room_code \notin DOMAIN m.rooms
             THEN [ok |-> FALSE, err |-> "RoomNotFound", manager |-> m]
             ELSE LET r == Room_set_ready(m.rooms[room_code], player_id, ready)
                  IN  [ok |-> r.ok, err |-> r.err,
                       manager |-> [m EXCEPT !.rooms =
                                       HashMap_insert(@, room_code, r.room)]]

\* main.rs handle_ready: the player is set ready and, when everybody in a room
\* of two or more is ready, the room starts playing
handle_ready(m, player_id) ==
    LET r == set_ready(m, player_id, TRUE)
    IN  IF r.ok
        THEN LET room == r.manager.rooms[r.manager.player_room[player_id]]
             IN  IF all_ready(room) /\ player_count(room) >= 2
                 THEN [r.manager EXCEPT !.rooms[room.code].state = "Playing"]
                 ELSE r.manager
        ELSE r.manager

(***************************************************************************)
(* session/mod.rs: Session and SessionManager.  The instants of a session  *)
(* (last_seen, last_ping, latency) are left out; disconnected_at is None   *)
(* or Some, and whether the grace period has elapsed since then is an      *)
(* input of reconnected_by_token.                                          *)
(***************************************************************************)
MaxSessions == 3
SessionAddrs == {"x", "y"}
SessionTokens == {"t1", "t2", "t3"}
SessionNames == {"ann", "bob"}

SessionManager_new ==
    [sessions_by_addr |-> <<>>, addr_by_player_id |-> <<>>,
     token_to_player_id |-> <<>>, next_player_id |-> 1]

\* the tokens generate_reconnect_token can return: the token is made from the
\* clock, so it is none of the tokens in use
generate_reconnect_token(m) == SessionTokens \ DOMAIN m.token_to_player_id

\* the manager after the call; reconnect_token is the generated token
register(m, addr, player_name, reconnect_token) ==
    IF addr \in DOMAIN m.sessions_by_addr
    THEN [m EXCEPT !.sessions_by_addr[addr].player_name = player_name]
    ELSE LET player_id == m.next_player_id
             session == [player_id |-> player_id, player_name |-> player_name,
                         addr |-> addr, room_code |-> None,
                         connection_state |-> "Connected",
                         reconnect_token |-> reconnect_token,
                         disconnected_at |-> None]
         IN  [sessions_by_addr |-> HashMap_insert(m.sessions_by_addr, addr, session),
              addr_by_player_id |-> HashMap_insert(m.addr_by_player_id, player_id, addr),
              token_to_player_id |->
                  HashMap_insert(m.token_to_player_id, reconnect_token, player_id),
              next_player_id |-> m.next_player_id + 1]

\* Option<Session> is the session that was at addr; the manager after the call
remove(m, addr) ==
    IF addr \in DOMAIN m.sessions_by_addr
    THEN LET session == m.sessions_by_addr[addr]
         IN  [m EXCEPT !.sessions_by_addr = HashMap_remove(@, addr),
                       !.addr_by_player_id = HashMap_remove(@, session.player_id),
                       !.token_to_player_id =
                           HashMap_remove(@, session.reconnect_token)]
    ELSE m

mark_player_disconnected(m, addr) ==
    IF addr \in DOMAIN m.sessions_by_addr
    THEN [m EXCEPT !.sessions_by_addr[addr].connection_state = "Disconnected",
                   !.sessions_by_addr[addr].disconnected_at = Some("now")]
    ELSE m

\* Option<&Session> (ok is Some) with the manager after the call; expired says
\* whether disconnected_at.elapsed() exceeds the grace period
reconnected_by_token(m, token, new_addr, player_name, expired) ==
    IF token \notin DOMAIN m.token_to_player_id
    THEN [ok |-> FALSE, manager |-> m]
    ELSE LET player_id == m.token_to_player_id[token]
         IN  IF player_id \notin DOMAIN m.addr_by_player_id
             THEN [ok |-> FALSE, manager |-> m]
             ELSE LET old_addr == m.addr_by_player_id[player_id]
                  IN  IF old_addr \notin DOMAIN m.sessions_by_addr
                      THEN [ok |-> FALSE, manager |-> m]
                      ELSE LET session == m.sessions_by_addr[old_addr]
                           IN  IF session.connection_state # "Disconnected"
                               THEN [ok |-> FALSE, manager |-> m]
                               ELSE IF session.disconnected_at # None /\ expired
                               THEN [ok |-> FALSE, manager |-> m]
                               ELSE [ok |-> TRUE,
                                     manager |->
                                       [m EXCEPT
                                          !.addr_by_player_id =
                                              HashMap_insert(@, player_id, new_addr),
                                          !.sessions_by_addr =
                                              HashMap_insert(
                                                  HashMap_remove(@, old_addr), new_addr,
                                                  [session EXCEPT
                                                      !.addr = new_addr,
                                                      !.player_name = player_name,
                                                      !.connection_state = "Connected",
                                                      !.disconnected_at = None])]]

(***************************************************************************)
(* PaperioGame::with_config: the configuration is supplied at construction *)
(* and never changes.                                                      *)
(***************************************************************************)
PaperioConfig(size, delay, invulnerability, spawn_distance) ==
    [grid_width |-> GridW, grid_height |-> GridH,
     starting_territory_size |-> size, respawn_delay_ticks |-> delay,
     invulnerability_ticks |-> invulnerability, min_spawn_distance |-> spawn_distance]

Configs == {PaperioConfig(1, 1, 2, 1)}

Init ==
    /\ config \in Configs
    /\ players = <<>>
    /\ territory = TerritoryGrid_new(config.grid_width, config.grid_height)
    /\ tick = 0
    /\ joins = 0
    /\ last = NoCall
    /\ room_manager = RoomManager_new(MaxPlayersPerRoom)
    /\ session_manager = SessionManager_new

Next ==
    \/ Tick
    \/ \E player_id \in PlayerIds, code \in 0..4 : HandleInput(player_id, Some(code))
    \/ \E player_id \in PlayerIds : PlayerJoined(player_id)
    \/ \E player_id \in PlayerIds : PlayerLeft(player_id)

Spec == Init /\ [][Next]_vars

(***************************************************************************)
(* handle_input on its own: every combination of absent, dead and alive    *)
(* players and of directions, and every input.                             *)
(***************************************************************************)
InputPlayer(id, st, cfg) ==
    LET p == [Player_new(id, GridPos(cfg.grid_width \div 2, cfg.grid_height \div 2))
                 EXCEPT !.invulnerability_timer = cfg.invulnerability_ticks]
    IN  IF st = "Dead"
        THEN eliminate_player(id :> p, id, cfg.respawn_delay_ticks)[id]
        ELSE [p EXCEPT !.direction = st]

InitInput ==
    /\ config \in Configs
    /\ \E present \in SUBSET PlayerIds :
       \E st \in [present -> Directions \cup {"Dead"}] :
          players = [id \in present |-> InputPlayer(id, st[id], config)]
    /\ territory = TerritoryGrid_new(config.grid_width, config.grid_height)
    /\ tick \in 0..MaxTicks
    /\ joins = 0
    /\ last = NoCall
    /\ room_manager = RoomManager_new(MaxPlayersPerRoom)
    /\ session_manager = SessionManager_new

NextInput == \E player_id \in PlayerIds, input \in Inputs : HandleInputCall(player_id, input)

SpecInput == InitInput /\ [][NextInput]_vars

(***************************************************************************)
(* claim_territory on its own: grids that hold a square ring of            *)
(* player 1 (closed, or with one cell missing) and a block of player 2.    *)
(***************************************************************************)
ClaimW == 5
ClaimH == 5
MaxTrail == 2

ClaimCells == {GridPos(x, y) : x \in 0..(ClaimW - 1), y \in 0..(ClaimH - 1)}

Outside == GridPos(-1, 0)

Rings == {r \in [x0 : 0..(ClaimW - 1), x1 : 0..(ClaimW - 1),
                 y0 : 0..(ClaimH - 1), y1 : 0..(ClaimH - 1)] :
            /\ r.x0 = r.y0
            /\ r.x1 = r.y1
            /\ r.x1 - r.x0 >= 2}

OnRing(r, pos) ==
    /\ pos.x \in r.x0..r.x1
    /\ pos.y \in r.y0..r.y1
    /\ pos.x \in {r.x0, r.x1} \/ pos.y \in {r.y0, r.y1}

\* player 2 gets a block first; the ring of player 1, less the gap, goes over it
ClaimGrid(r, gap, block) ==
    LET t0 == TerritoryGrid_new(ClaimW, ClaimH)
        t1 == IF block = Outside THEN t0 ELSE grant_starting_territory(t0, 2, block, 3)
        scan == RowMajor(t0)
    IN  [t1 EXCEPT !.cells = [i \in DOMAIN t1.cells |->
                                IF OnRing(r, scan[i]) /\ scan[i] # gap
                                THEN Some(1) ELSE t1.cells[i]]]

Steps == {<<0, 0>>, <<0, -1>>, <<0, 1>>, <<-1, 0>>, <<1, 0>>}

\* trails of up to MaxTrail cells: each cell is the one before it or next to it
RECURSIVE Trails(_)
Trails(n) ==
    IF n = 0 THEN {<<>>}
    ELSE IF n = 1 THEN {<<>>} \cup {<<c>> : c \in ClaimCells \cup {Outside}}
    ELSE Trails(n - 1) \cup
         {Append(tr, offset(tr[Len(tr)], d[1], d[2])) :
             tr \in {u \in Trails(n - 1) : Len(u) = n - 1}, d \in Steps}

InitClaim ==
    /\ config = [PaperioConfig(3, 1, 0, 1) EXCEPT !.grid_width = ClaimW, !.grid_height = ClaimH]
    /\ players = <<>>
    /\ \E r \in Rings :
       \E gap \in {pos \in ClaimCells : OnRing(r, pos)} \cup {Outside} :
       \E block \in {Outside, GridPos(1, 1)} :
          territory = ClaimGrid(r, gap, block)
    /\ tick = 0
    /\ joins = 0
    /\ last = NoCall
    /\ room_manager = RoomManager_new(MaxPlayersPerRoom)
    /\ session_manager = SessionManager_new

ClaimCall(player_id, trail) ==
    LET claim == claim_territory(territory, player_id, trail)
    IN  /\ last.op = "new"
        /\ territory' = claim.territory
        /\ last' = [NoCall EXCEPT !.op = "claim_territory", !.player_id = player_id,
                                  !.input = trail, !.before = territory,
                                  !.result = claim.result]
        /\ UNCHANGED <<players, tick, config, joins,
                 room_manager, session_manager>>

NextClaim ==
    /\ last.op = "new"
    /\ \E player_id \in PlayerIds, trail \in Trails(MaxTrail) : ClaimCall(player_id, trail)

SpecClaim == InitClaim /\ [][NextClaim]_vars


(***************************************************************************)
(* Properties of claim_territory                                           *)
(***************************************************************************)
Cells(t) == {GridPos(x, y) : x \in 0..(t.width - 1), y \in 0..(t.height - 1)}

Owned(t, player_id) == {c \in Cells(t) : get_cell_owner(t, c) = Some(player_id)}

Border(t) == {c \in Cells(t) : c.x = 0 \/ c.y = 0 \/ c.x = t.width - 1 \/ c.y = t.height - 1}

SeqRange(s) == {s[i] : i \in DOMAIN s}

\* the cells of `free` joined to a cell of S by a path of side-by-side cells of `free`
RECURSIVE Spread(_, _)
Spread(S, free) ==
    LET more == {c \in free \ S : \E d \in S : (c.x = d.x /\ c.y - d.y \in {-1, 1})
                                              \/ (c.y = d.y /\ c.x - d.x \in {-1, 1})}
    IN  IF more = {} THEN S ELSE Spread(S \cup more, free)

\* the cells outside `owned` from which no such path leads to the border of the grid
Enclosed(t, owned) ==
    LET free == Cells(t) \ owned
    IN  free \ Spread(free \cap Border(t), free)

\* C2: after claim_territory(p, trail) with a non-empty trail, p owns exactly the
\* cells it owned before, the in-bounds cells of the trail, and every cell that,
\* once the trail is marked, no 4-connected path of cells not owned by p joins to
\* a border cell not owned by p: a closed ring gains its whole interior, a ring
\* with one cell missing gains nothing but the trail.
C2_FloodFillClosure ==
    (last.op = "claim_territory" /\ last.input # <<>>) =>
        LET p == last.player_id
            marked == Owned(last.before, p) \cup (SeqRange(last.input) \cap Cells(last.before))
        IN  Owned(territory, p) = marked \cup Enclosed(last.before, marked)

\* the trail is the one missing cell of the 5x5 ring: the 9 cells inside are gained with it
C2_Witness ==
    /\ last.op = "claim_territory"
    /\ Len(last.input) = 1
    /\ Cardinality(Owned(last.before, last.player_id)) = 15
    /\ Cardinality(Owned(territory, last.player_id)) = 25
    /\ last.result.cells_claimed = 10

\* C3: claim_territory(p, <<>>) reports 0 cells claimed, 0 stolen and no victims
\* and leaves every cell of the grid as it was, even when p's territory already
\* surrounds cells p does not own.
C3_EmptyTrailNoOp ==
    (last.op = "claim_territory" /\ last.input = <<>>) =>
        /\ last.result.cells_claimed = 0
        /\ last.result.cells_stolen = 0
        /\ last.result.victims = <<>>
        /\ territory = last.before

\* an empty trail on a grid where the player's closed ring surrounds cells of others
C3_Witness ==
    /\ last.op = "claim_territory"
    /\ last.input = <<>>
    /\ Enclosed(last.before, Owned(last.before, last.player_id)) # {}
    /\ \E c \in Enclosed(last.before, Owned(last.before, last.player_id)) :
          get_cell_owner(last.before, c) # None

\* the cells that another player owned before the claim and player_id owns after it
Taken(before, after, player_id) ==
    {c \in Cells(before) : /\ get_cell_owner(before, c) # None
                           /\ get_cell_owner(before, c) # Some(player_id)
                           /\ get_cell_owner(after, c) = Some(player_id)}

\* C5: cells_claimed is the growth of p's owned-cell count, cells_stolen is the
\* number of cells whose owner changed from another player to p (a cell counts
\* once however often the trail visits it), and victims lists, without
\* repetition, exactly the previous owners of those cells.
C5_ClaimAccounting ==
    (last.op = "claim_territory") =>
        LET p == last.player_id
            taken == Taken(last.before, territory, p)
        IN  /\ last.result.cells_claimed =
                 Cardinality(Owned(territory, p)) - Cardinality(Owned(last.before, p))
            /\ last.result.cells_stolen = Cardinality(taken)
            /\ Cardinality(SeqRange(last.result.victims)) = Len(last.result.victims)
            /\ SeqRange(last.result.victims) = {get_cell_owner(last.before, c)[1] : c \in taken}

\* a trail that visits the same cell of another player twice, and encloses more of them
C5_Witness ==
    /\ last.op = "claim_territory"
    /\ Len(last.input) = 2
    /\ last.input[1] = last.input[2]
    /\ get_cell_owner(last.before, last.input[1]) \notin {None, Some(last.player_id)}
    /\ last.result.cells_stolen >= 2


(***************************************************************************)
(* Properties of handle_input                                              *)
(***************************************************************************)
\* the direction an input code asks for
Requested(code) ==
    IF code \in 1..4 THEN <<"Up", "Down", "Left", "Right">>[code] ELSE "None"

\* d and r are directions of movement that point against each other
Reverses(d, r) ==
    /\ delta(d) # <<0, 0>>
    /\ delta(d)[1] + delta(r)[1] = 0
    /\ delta(d)[2] + delta(r)[2] = 0

\* C6: for an alive player whose direction d is not None, one handle_input call
\* that asks for the opposite of d fails and leaves the direction at d; a call that
\* asks for anything else (a 90-degree turn, d again, or None) succeeds and sets
\* the direction to what was asked.
C6_NoReversal ==
    (/\ last.op = "handle_input"
     /\ last.input # None
     /\ last.player_id \in DOMAIN last.before.players
     /\ last.before.players[last.player_id].alive
     /\ last.before.players[last.player_id].direction # "None") =>
        LET d == last.before.players[last.player_id].direction
            r == Requested(last.input[1])
        IN  IF Reverses(d, r)
            THEN ~last.ok /\ players[last.player_id].direction = d
            ELSE last.ok /\ players[last.player_id].direction = r

\* a player moving Right is asked to go Left
C6_Witness ==
    /\ last.op = "handle_input"
    /\ last.input = Some(3)
    /\ last.player_id \in DOMAIN last.before.players
    /\ last.before.players[last.player_id].alive
    /\ last.before.players[last.player_id].direction = "Right"
    /\ ~last.ok
    /\ players[last.player_id].direction = "Right"

\* C7: a handle_input call that returns an error (undecodable input, unknown
\* player, dead player, reversal) leaves the players, the grid and the tick
\* counter exactly as they were.
C7_FailureAtomicity ==
    (last.op = "handle_input" /\ ~last.ok) =>
        /\ players = last.before.players
        /\ territory = last.before.territory
        /\ tick = last.before.tick

\* a rejected reversal of a player that was moving
C7_Witness ==
    /\ last.op = "handle_input"
    /\ ~last.ok
    /\ last.err = "Cannot reverse direction"
    /\ last.player_id \in DOMAIN players
    /\ players[last.player_id].direction # "None"


Takers(call) ==
    SeqRange(call.respawns) \cup {call.claims[k].player_id : k \in DOMAIN call.claims}

\* C4: over a tick or a handle_input call a player loses a cell only to another
\* player that made a claim or was granted a starting block (a respawn) in that
\* call, so its owned-cell count decreases for no other cause; when no other
\* player is in the game the count does not decrease over any tick, the ticks in
\* which the player is eliminated or respawns included.
C4_TerritoryKept ==
    (last.op \in {"tick", "handle_input"}) =>
        \A p \in PlayerIds :
           /\ \A c \in Owned(last.before.territory, p) \ Owned(territory, p) :
                 \E q \in Takers(last) \ {p} : get_cell_owner(territory, c) = Some(q)
           /\ (last.op = "tick" /\ DOMAIN last.before.players \subseteq {p}) =>
                 Cardinality(Owned(territory, p)) >=
                    Cardinality(Owned(last.before.territory, p))

\* a tick in which one player's claim takes a cell from another player
C4_Witness ==
    /\ last.op = "tick"
    /\ \E k \in DOMAIN last.claims :
          /\ last.claims[k].result.cells_stolen >= 1
          /\ \E p \in PlayerIds \ {last.claims[k].player_id} :
                Cardinality(Owned(territory, p)) < Cardinality(Owned(last.before.territory, p))

\* pos is on the edge of the grid and d points from it out of the grid
PointsOut(t, pos, d) ==
    \/ d = "Left" /\ pos.x = 0
    \/ d = "Right" /\ pos.x = t.width - 1
    \/ d = "Up" /\ pos.y = 0
    \/ d = "Down" /\ pos.y = t.height - 1

\* C8: a player that is alive before a tick, on an edge cell, with a direction
\* that points out of the grid, is listed in the tick's eliminated list and is
\* not alive after the tick; the movement step leaves its position alone, and it
\* is still on that cell after the tick.
C8_BoundaryElimination ==
    (last.op = "tick") =>
        \A p \in DOMAIN last.before.players :
           LET pl == last.before.players[p]
           IN  (pl.alive /\ PointsOut(last.before.territory, pl.position, pl.direction)) =>
                  /\ Contains(last.eliminated, p)
                  /\ ~players[p].alive
                  /\ last.after_movement[p].position = pl.position
                  /\ players[p].position = pl.position

\* a tick that eliminated a player at the boundary
C8_Witness ==
    /\ last.op = "tick"
    /\ \E p \in DOMAIN last.before.players :
          /\ last.before.players[p].alive
          /\ PointsOut(last.before.territory, last.before.players[p].position,
                       last.before.players[p].direction)
          /\ Contains(last.eliminated, p)
          /\ ~players[p].alive

\* the players that are alive when the collisions of the recorded tick are checked,
\* as they are then: those alive after the movement that did not hit the boundary
Colliders(call) ==
    {p \in DOMAIN call.after_movement :
        /\ call.after_movement[p].alive
        /\ ~\E k \in DOMAIN call.move_results :
              call.move_results[k][1] = p /\ call.move_results[k][2].hit_boundary}

\* C9: a player that, after the movement phase of a tick, is alive, is not
\* invulnerable and stands on a cell of its own trail is eliminated in that tick,
\* with reason SelfCollision and killer 0.
C9_SelfCollision ==
    (last.op = "tick") =>
        \A p \in Colliders(last) :
           LET pl == last.after_movement[p]
           IN  (~is_invulnerable(pl) /\ Contains(pl.trail, pl.position)) =>
                  /\ Contains(last.collisions, Elimination(p, 0, "SelfCollision"))
                  /\ Contains(last.eliminated, p)
                  /\ ~players[p].alive

\* C10: when, after the movement of a tick, an alive player B stands on a cell of
\* the trail of another alive player A that is not invulnerable, A is eliminated
\* in that tick with reason TrailCut and killer B.  Read in favour of the code: B
\* is not invulnerable either, and it is enough that A is eliminated in that
\* tick, whatever the reason recorded.
C10_TrailCut ==
    (last.op = "tick") =>
        \A a, b \in Colliders(last) :
           LET pa == last.after_movement[a]
               pb == last.after_movement[b]
           IN  (/\ a # b
                /\ ~is_invulnerable(pa)
                /\ ~is_invulnerable(pb)
                /\ Contains(pa.trail, pb.position)) =>
                  /\ Contains(last.eliminated, a)
                  /\ ~players[a].alive

\* the vulnerable players that stand on pos when the collisions of the recorded
\* tick are checked
Meeting(call, pos) ==
    {p \in Colliders(call) :
        /\ call.after_movement[p].position = pos
        /\ ~is_invulnerable(call.after_movement[p])}

\* those of them that hold the highest score of the group
TopScorers(call, pos) ==
    {p \in Meeting(call, pos) :
        \A q \in Meeting(call, pos) :
           call.after_movement[q].score <= call.after_movement[p].score}

\* C11: when two or more alive players that are not invulnerable stand on one
\* cell after the movement of a tick and two or more of them share the highest
\* score, each of these top scorers is eliminated in that tick with reason
\* HeadCollision and killer 0.
C11_HeadOnTie ==
    (last.op = "tick") =>
        \A pos \in Cells(territory) :
           (Cardinality(TopScorers(last, pos)) >= 2) =>
              \A p \in TopScorers(last, pos) :
                 /\ Contains(last.collisions, Elimination(p, 0, "HeadCollision"))
                 /\ Contains(last.eliminated, p)
                 /\ ~players[p].alive

\* C12: when two or more alive players that are not invulnerable stand on one
\* cell after the movement of a tick and one of them alone holds the highest
\* score, that player is not eliminated by the collision and every other one of
\* them is eliminated in that tick with reason HeadCollision and the survivor as
\* killer.
C12_HeadOnWinner ==
    (last.op = "tick") =>
        \A pos \in Cells(territory) :
           (Cardinality(Meeting(last, pos)) >= 2 /\ Cardinality(TopScorers(last, pos)) = 1) =>
              \A w \in TopScorers(last, pos) :
                 /\ \A k \in DOMAIN last.collisions :
                       ~(last.collisions[k].victim = w /\
                         last.collisions[k].reason = "HeadCollision")
                 /\ \A p \in Meeting(last, pos) \ {w} :
                       /\ Contains(last.collisions, Elimination(p, w, "HeadCollision"))
                       /\ Contains(last.eliminated, p)
                       /\ ~players[p].alive

(***************************************************************************)
(* update_scores on its own: one player that owns the first `owned` cells  *)
(* of a grid, for every number of cells.                                   *)
(***************************************************************************)
ScoreW == 10
ScoreH == 10

\* the grid in which player_id owns the first `owned` cells in row-major order
ScoreGrid(player_id, owned) ==
    [width |-> ScoreW, height |-> ScoreH,
     cells |-> [k \in 1..(ScoreW * ScoreH) |-> IF k <= owned THEN Some(player_id) ELSE None]]

InitScore ==
    /\ config = [PaperioConfig(3, 1, 2, 1) EXCEPT !.grid_width = ScoreW,
                                                  !.grid_height = ScoreH]
    /\ \E owned \in 0..(ScoreW * ScoreH) : territory = ScoreGrid(1, owned)
    /\ players = (1 :> Player_new(1, GridPos(0, 0)))
    /\ tick = 0
    /\ joins = 0
    /\ last = NoCall
    /\ room_manager = RoomManager_new(MaxPlayersPerRoom)
    /\ session_manager = SessionManager_new

ScoreCall ==
    /\ last.op = "new"
    /\ players' = update_scores(players, territory)
    /\ last' = [NoCall EXCEPT !.op = "update_scores"]
    /\ UNCHANGED <<territory, tick, config, joins,
                 room_manager, session_manager>>

NextScore == ScoreCall

SpecScore == InitScore /\ [][NextScore]_vars

\* C15: after the scores are recomputed each player's score is
\* floor(10000 * owned_cells / total_cells).
C15_ScoreExact ==
    (last.op = "update_scores") =>
        \A p \in DOMAIN players :
           players[p].score =
              (10000 * count_owned_by(territory, p)) \div get_total_cells(territory)

(***************************************************************************)
(* grant_starting_territory on its own: every block size from 1 to         *)
(* MaxSize, every centre cell, on a free grid and on one another player    *)
(* owns.                                                                   *)
(***************************************************************************)
MaxSize == 4

InitGrant ==
    /\ \E size \in 1..MaxSize :
          config = [PaperioConfig(size, 1, 2, 1) EXCEPT !.grid_width = ClaimW,
                                                        !.grid_height = ClaimH]
    /\ \E owner \in {None, Some(2)} :
          territory = [TerritoryGrid_new(ClaimW, ClaimH) EXCEPT
                          !.cells = [k \in DOMAIN @ |-> owner]]
    /\ players = <<>>
    /\ tick = 0
    /\ joins = 0
    /\ last = NoCall
    /\ room_manager = RoomManager_new(MaxPlayersPerRoom)
    /\ session_manager = SessionManager_new

GrantCall(player_id, center) ==
    /\ last.op = "new"
    /\ territory' = grant_starting_territory(territory, player_id, center,
                                             config.starting_territory_size)
    /\ last' = [NoCall EXCEPT !.op = "grant_starting_territory", !.player_id = player_id,
                              !.input = center, !.before = territory]
    /\ UNCHANGED <<players, tick, config, joins,
                 room_manager, session_manager>>

NextGrant == \E center \in ClaimCells : GrantCall(1, center)

SpecGrant == InitGrant /\ [][NextGrant]_vars

\* the cells of the square of side s whose lowest corner is (x0, y0)
Square(x0, y0, s) == {GridPos(x, y) : x \in x0..(x0 + s - 1), y \in y0..(y0 + s - 1)}

\* the squares of side s centred on c; for an even s, each of the four squares
\* whose middle lies at half a cell from c
Centred(c, s) ==
    {Square(c.x - hx, c.y - hy, s) : hx \in {(s - 1) \div 2, s \div 2},
                                     hy \in {(s - 1) \div 2, s \div 2}}

\* C18: a grant of size s at a spawn cell gives the player exactly the in-bounds
\* cells of a square of side s centred on that cell, whoever owned them, and
\* changes no other cell.
C18_StartingBlock ==
    (last.op = "grant_starting_territory") =>
        \E sq \in Centred(last.input, config.starting_territory_size) :
           \A c \in Cells(territory) :
              get_cell_owner(territory, c) =
                 IF c \in sq THEN Some(last.player_id) ELSE get_cell_owner(last.before, c)

(***************************************************************************)
(* player_left on its own: every set of players in the game, alive or      *)
(* dead, and every assignment of the cells of a small grid to them.        *)
(***************************************************************************)
LeaveW == 3
LeaveH == 2

InitLeave ==
    /\ config = [PaperioConfig(1, 1, 2, 1) EXCEPT !.grid_width = LeaveW,
                                                  !.grid_height = LeaveH]
    /\ \E present \in SUBSET PlayerIds :
          /\ \E st \in [present -> {"None", "Right", "Dead"}] :
                players = [id \in present |-> InputPlayer(id, st[id], config)]
          /\ \E cells \in [1..(LeaveW * LeaveH) -> {None} \cup {Some(id) : id \in present}] :
                territory = [width |-> LeaveW, height |-> LeaveH, cells |-> cells]
    /\ tick = 0
    /\ joins = 0
    /\ last = NoCall
    /\ room_manager = RoomManager_new(MaxPlayersPerRoom)
    /\ session_manager = SessionManager_new

NextLeave == \E player_id \in PlayerIds : PlayerLeftCall(player_id)

SpecLeave == InitLeave /\ [][NextLeave]_vars

\* C16: player_left(id) removes the record of id and leaves no cell owned by id;
\* the records of the other players and the cells id did not own are unchanged;
\* for an id that is not in the game nothing changes.
C16_PlayerLeftFrame ==
    (last.op = "player_left") =>
        LET id == last.player_id
            was == last.before
        IN  /\ id \notin DOMAIN players
            /\ count_owned_by(territory, id) = 0
            /\ DOMAIN players = DOMAIN was.players \ {id}
            /\ \A q \in DOMAIN players : players[q] = was.players[q]
            /\ \A c \in Cells(territory) :
                  get_cell_owner(territory, c) =
                     IF get_cell_owner(was.territory, c) = Some(id) THEN None
                     ELSE get_cell_owner(was.territory, c)
            /\ (id \notin DOMAIN was.players) =>
                  (players = was.players /\ territory = was.territory)

\* a player that owned cells has left a game in which another player owns cells
C16_Witness ==
    /\ last.op = "player_left"
    /\ last.player_id \in DOMAIN last.before.players
    /\ count_owned_by(last.before.territory, last.player_id) >= 2
    /\ \E q \in DOMAIN players : count_owned_by(territory, q) >= 1

(***************************************************************************)
(* player_joined on its own: every block size and two spawn distances,     *)
(* every set of players, alive or dead, wherever they stand, each with the *)
(* starting block of its own join around it.                               *)
(***************************************************************************)
JoinPlayer(id, pos, alive, cfg) ==
    LET p == [Player_new(id, pos) EXCEPT !.invulnerability_timer = cfg.invulnerability_ticks]
    IN  IF alive THEN p ELSE eliminate_player(id :> p, id, cfg.respawn_delay_ticks)[id]

RECURSIVE JoinGrid(_, _, _, _)
JoinGrid(t, ps, ids, cfg) ==
    IF ids = {} THEN t
    ELSE LET id == Min(ids)
         IN  JoinGrid(grant_starting_territory(t, id, ps[id].position,
                                               cfg.starting_territory_size),
                      ps, ids \ {id}, cfg)

InitJoin ==
    /\ \E size \in 1..MaxSize, spawn_distance \in {1, 3} :
          config = [PaperioConfig(size, 1, 2, spawn_distance) EXCEPT
                       !.grid_width = ClaimW, !.grid_height = ClaimH]
    /\ \E present \in SUBSET PlayerIds :
       \E pos \in [present -> ClaimCells], alive \in [present -> BOOLEAN] :
          players = [id \in present |-> JoinPlayer(id, pos[id], alive[id], config)]
    /\ territory = JoinGrid(TerritoryGrid_new(ClaimW, ClaimH), players, DOMAIN players,
                            config)
    /\ tick = 0
    /\ joins = 0
    /\ last = NoCall
    /\ room_manager = RoomManager_new(MaxPlayersPerRoom)
    /\ session_manager = SessionManager_new

NextJoin == \E player_id \in PlayerIds : PlayerJoinedCall(player_id)

SpecJoin == InitJoin /\ [][NextJoin]_vars

\* C17: player_joined on a world without alive players succeeds and puts the
\* player on the centre cell (width/2, height/2); after every successful join the
\* player is in the game, alive, with the configured invulnerability, direction
\* None and an empty trail, and owns its position and every in-bounds cell of its
\* starting block.
C17_JoinPlacement ==
    (last.op = "player_joined") =>
        LET id == last.player_id
            was == last.before.players
        IN  /\ (\A q \in DOMAIN was : ~was[q].alive) =>
                  /\ last.ok
                  /\ players[id].position =
                        GridPos(config.grid_width \div 2, config.grid_height \div 2)
            /\ last.ok =>
                  /\ id \in DOMAIN players
                  /\ players[id].alive
                  /\ players[id].invulnerability_timer = config.invulnerability_ticks
                  /\ players[id].direction = "None"
                  /\ players[id].trail = <<>>
                  /\ is_owned_by(territory, players[id].position, id)
                  /\ \A sq \in Centred(players[id].position, config.starting_territory_size) :
                        \A c \in sq \cap Cells(territory) : is_owned_by(territory, c, id)

\* a join into a game with an alive player and a dead one, which puts the new
\* player away from the centre
C17_Witness ==
    /\ last.op = "player_joined"
    /\ last.ok
    /\ \E q \in DOMAIN last.before.players : last.before.players[q].alive
    /\ \E q \in DOMAIN last.before.players : ~last.before.players[q].alive
    /\ players[last.player_id].position #
          GridPos(config.grid_width \div 2, config.grid_height \div 2)
    /\ is_owned_by(territory, players[last.player_id].position, last.player_id)

\* C19: in every state reached by player_joined, player_left, handle_input and
\* tick calls, every alive player stands on a cell of the grid.
C19_AliveInBounds ==
    \A p \in DOMAIN players :
       players[p].alive => in_bounds(territory, players[p].position)

\* a tick has taken an alive player to an edge cell, from which its direction
\* points out of the grid
C19_Witness ==
    /\ last.op = "tick"
    /\ \E p \in DOMAIN players :
          /\ players[p].alive
          /\ last.before.players[p].position # players[p].position
          /\ PointsOut(territory, players[p].position, players[p].direction)

\* C20: after every tick, handle_input, player_joined and player_left call, a
\* player whose trail is not empty is alive and does not own the cell it stands
\* on.
C20_TrailInvariant ==
    \A p \in DOMAIN players :
       (players[p].trail # <<>>) =>
          /\ players[p].alive
          /\ ~is_owned_by(territory, players[p].position, p)

\* a tick has left one player with a trail of two cells or more while another
\* player was eliminated
C20_Witness ==
    /\ last.op = "tick"
    /\ \E p \in DOMAIN players : Len(players[p].trail) >= 2
    /\ last.eliminated # <<>>

(***************************************************************************)
(* The game under other configurations, on a grid whose centre is its only *)
(* spawn cell: a respawn delay of two ticks with no invulnerability, and a *)
(* delay of one tick with an invulnerability of three.                     *)
(***************************************************************************)
RespawnW == 3
RespawnH == 3
RespawnTicks == 3

ConfigsRespawn ==
    {[PaperioConfig(1, c[1], c[2], 1) EXCEPT !.grid_width = RespawnW,
                                             !.grid_height = RespawnH] :
        c \in {<<2, 0>>, <<1, 3>>}}

InitRespawn ==
    /\ config \in ConfigsRespawn
    /\ players = <<>>
    /\ territory = TerritoryGrid_new(config.grid_width, config.grid_height)
    /\ tick = 0
    /\ joins = 0
    /\ last = NoCall
    /\ room_manager = RoomManager_new(MaxPlayersPerRoom)
    /\ session_manager = SessionManager_new

TickRespawn == tick < RespawnTicks /\ TickCall

NextRespawn ==
    \/ TickRespawn
    \/ \E player_id \in PlayerIds, code \in 0..4 : HandleInput(player_id, Some(code))
    \/ \E player_id \in PlayerIds : PlayerJoined(player_id)
    \/ \E player_id \in PlayerIds : PlayerLeft(player_id)

SpecRespawn == InitRespawn /\ [][NextRespawn]_vars

\* C13: a player whose invulnerability countdown is above 0 after the timer
\* advance of a tick is not eliminated in that tick.
C13_Invulnerable ==
    (last.op = "tick") =>
        \A p \in DOMAIN last.after_timers :
           is_invulnerable(last.after_timers[p]) => ~Contains(last.eliminated, p)

\* the players that are dead before the recorded tick with a respawn countdown of
\* k, under a configured delay of 1 or more
Waiting(call, k) ==
    {p \in DOMAIN call.before.players :
        /\ config.respawn_delay_ticks >= 1
        /\ ~call.before.players[p].alive
        /\ call.before.players[p].respawn_timer = k}

\* p ends the tick as a respawn leaves it: alive, fully invulnerable, at rest,
\* without a trail
Respawned(p) ==
    /\ players[p].alive
    /\ players[p].invulnerability_timer = config.invulnerability_ticks
    /\ players[p].direction = "None"
    /\ players[p].trail = <<>>

\* C14 as stated: under a respawn delay D >= 1 a player eliminated in a tick ends
\* it dead with countdown D; each later tick takes 1 off the countdown; the tick
\* that takes it to 0 lists the player in its respawns and ends with the player
\* alive, with the full invulnerability, direction None and no trail.
C14_RespawnCycle_Stated ==
    (last.op = "tick") =>
        /\ \A p \in SeqRange(last.eliminated) :
              config.respawn_delay_ticks >= 1 =>
                 /\ ~players[p].alive
                 /\ players[p].respawn_timer = config.respawn_delay_ticks
        /\ \A k \in 2..config.respawn_delay_ticks : \A p \in Waiting(last, k) :
              /\ ~players[p].alive
              /\ players[p].respawn_timer = k - 1
              /\ ~Contains(last.respawns, p)
        /\ \A p \in Waiting(last, 1) :
              /\ Contains(last.respawns, p)
              /\ Respawned(p)

\* C14, amended: the same, where the player ends the tick of its respawn alive
\* when the configured invulnerability is 1 tick or more; with none, it is
\* listed in the respawns and may be eliminated again in that tick.
C14_RespawnCycle ==
    (last.op = "tick") =>
        /\ \A p \in SeqRange(last.eliminated) :
              config.respawn_delay_ticks >= 1 =>
                 /\ ~players[p].alive
                 /\ players[p].respawn_timer = config.respawn_delay_ticks
        /\ \A k \in 2..config.respawn_delay_ticks : \A p \in Waiting(last, k) :
              /\ ~players[p].alive
              /\ players[p].respawn_timer = k - 1
              /\ ~Contains(last.respawns, p)
        /\ \A p \in Waiting(last, 1) :
              /\ Contains(last.respawns, p)
              /\ last.after_respawn[p].alive
              /\ last.after_respawn[p].invulnerability_timer = config.invulnerability_ticks
              /\ last.after_respawn[p].direction = "None"
              /\ last.after_respawn[p].trail = <<>>
              /\ (config.invulnerability_ticks >= 1 \/ ~Contains(last.eliminated, p)) =>
                    Respawned(p)

\* a tick has brought back a player that waited two ticks, next to an alive player
C14_Witness ==
    /\ last.op = "tick"
    /\ config.respawn_delay_ticks = 2
    /\ \E p \in Waiting(last, 1) :
          /\ Contains(last.respawns, p)
          /\ \E q \in DOMAIN players \ {p} : last.before.players[q].alive

(***************************************************************************)
(* The game of three players without invulnerability, so that the players *)
(* collide from the first tick on.                                         *)
(***************************************************************************)
ThreePlayers == 3
ThreeJoins == 3
ThreeTicks == 2

InitThree ==
    /\ config = PaperioConfig(1, 1, 0, 1)
    /\ players = <<>>
    /\ territory = TerritoryGrid_new(config.grid_width, config.grid_height)
    /\ tick = 0
    /\ joins = 0
    /\ last = NoCall
    /\ room_manager = RoomManager_new(MaxPlayersPerRoom)
    /\ session_manager = SessionManager_new

TickThree == tick < ThreeTicks /\ TickCall

\* the players join one after the other, in the order of their ids
JoinThree(player_id) == joins < ThreeJoins /\ player_id = joins + 1 /\ JoinCall(player_id)

NextThree ==
    \/ TickThree
    \/ \E player_id \in 1..ThreePlayers, code \in 0..4 : HandleInput(player_id, Some(code))
    \/ \E player_id \in 1..ThreePlayers : JoinThree(player_id)

SpecThree == InitThree /\ [][NextThree]_vars

\* the players that the trail pass of the recorded tick's collision check lists as
\* victims, by SelfCollision or by TrailCut
TrailVictims(call) ==
    {call.collisions[k].victim : k \in {j \in DOMAIN call.collisions :
                                           call.collisions[j].reason # "HeadCollision"}}

\* the vulnerable players on pos that the trail pass left standing
Facing(call, pos) == Meeting(call, pos) \ TrailVictims(call)

FacingTop(call, pos) ==
    {p \in Facing(call, pos) :
        \A q \in Facing(call, pos) :
           call.after_movement[q].score <= call.after_movement[p].score}

\* C11, amended: the head-on check counts the players on a cell that are alive,
\* not invulnerable and not already a victim of the trail pass of the same
\* collision check; when two or more of these share their highest score, each
\* of these top scorers is eliminated in that tick with reason HeadCollision and
\* killer 0, and the others of them are not eliminated by the collision.
C11_HeadOnTie_Facing ==
    (last.op = "tick") =>
        \A pos \in Cells(territory) :
           (Cardinality(FacingTop(last, pos)) >= 2) =>
              /\ \A p \in FacingTop(last, pos) :
                    /\ Contains(last.collisions, Elimination(p, 0, "HeadCollision"))
                    /\ Contains(last.eliminated, p)
                    /\ ~players[p].alive
              /\ \A p \in Facing(last, pos) \ FacingTop(last, pos) :
                    /\ ~Contains(last.eliminated, p)
                    /\ players[p].alive

\* a tie of two top scorers on a cell on which a third player stands
C11_Witness ==
    /\ last.op = "tick"
    /\ \E pos \in Cells(territory) :
          /\ Cardinality(FacingTop(last, pos)) = 2
          /\ Cardinality(Facing(last, pos)) = 3
          /\ \A p \in FacingTop(last, pos) : ~players[p].alive

\* C12, amended: when two or more such players stand on a cell and one of them
\* alone holds their highest score, that player is not eliminated in the tick and
\* every other one of them is eliminated in that tick with reason HeadCollision
\* and the survivor as killer.
C12_HeadOnWinner_Facing ==
    (last.op = "tick") =>
        \A pos \in Cells(territory) :
           (Cardinality(Facing(last, pos)) >= 2 /\ Cardinality(FacingTop(last, pos)) = 1) =>
              \A w \in FacingTop(last, pos) :
                 /\ ~Contains(last.eliminated, w)
                 /\ players[w].alive
                 /\ \A p \in Facing(last, pos) \ {w} :
                       /\ Contains(last.collisions, Elimination(p, w, "HeadCollision"))
                       /\ Contains(last.eliminated, p)
                       /\ ~players[p].alive

\* one top scorer has eliminated two players on its cell
C12_Witness ==
    /\ last.op = "tick"
    /\ \E pos \in Cells(territory) :
          /\ Cardinality(FacingTop(last, pos)) = 1
          /\ Cardinality(Facing(last, pos)) = 3
          /\ \A w \in FacingTop(last, pos) : players[w].alive


(***************************************************************************)
(* The effect of an elimination                                            *)
(***************************************************************************)
\* C21: every player eliminated by a tick is, at the end of that tick, not
\* alive, without trail, with direction None and with its respawn countdown at
\* the configured delay; a tick that eliminates players and neither claims nor
\* respawns leaves the grid as it was; and in every reachable state a player
\* that is not alive has an empty trail and direction None.
C21_EliminationEffect ==
    /\ \A id \in DOMAIN players :
          ~players[id].alive =>
              players[id].trail = <<>> /\ players[id].direction = "None"
    /\ last.op = "tick" =>
          /\ \A i \in DOMAIN last.eliminated :
                LET p == players[last.eliminated[i]]
                IN  /\ ~p.alive
                    /\ p.trail = <<>>
                    /\ p.direction = "None"
                    /\ p.respawn_timer = config.respawn_delay_ticks
          /\ (last.eliminated # <<>> /\ last.claims = <<>> /\ last.respawns = <<>>)
                => territory = last.before.territory

\* a tick has eliminated a player that had a trail and a direction, and the
\* player still owns cells
C21_Witness ==
    /\ last.op = "tick"
    /\ \E i \in DOMAIN last.eliminated :
          LET id == last.eliminated[i]
          IN  /\ last.after_movement[id].trail # <<>>
              /\ last.after_movement[id].direction # "None"
              /\ count_owned_by(territory, id) > 0
              /\ ~players[id].alive

(***************************************************************************)
(* The movement phase of a tick                                            *)
(***************************************************************************)
\* C22: in every tick an alive player with a direction d other than None whose
\* target cell position + delta(d) is in bounds ends the movement phase on
\* that cell, and a player that is not alive or has direction None keeps its
\* position during the movement phase; the later phases of the tick move
\* nobody, eliminated or not.
C22_Movement ==
    last.op = "tick" =>
        \A id \in DOMAIN last.after_respawn :
            LET p == last.after_respawn[id]
                q == last.after_movement[id]
                target == [x |-> p.position.x + delta(p.direction)[1],
                           y |-> p.position.y + delta(p.direction)[2]]
            IN  /\ (p.alive /\ p.direction # "None" /\ in_bounds(territory, target))
                      => q.position = target
                /\ (~p.alive \/ p.direction = "None") => q.position = p.position
                /\ players[id].position = q.position

\* two players have moved in one tick, one of them onto a cell next to its old
\* one and into an elimination by the collision check of the same tick
C22_Witness ==
    /\ last.op = "tick"
    /\ \E id, other \in DOMAIN last.after_respawn :
          /\ id # other
          /\ last.after_movement[other].position # last.after_respawn[other].position
          /\ last.after_respawn[id].alive
          /\ distance(last.after_respawn[id].position, players[id].position) = 1
          /\ \E i \in DOMAIN last.applied :
                /\ last.applied[i].victim = id
                /\ last.applied[i].reason # "Boundary"

(***************************************************************************)
(* The eliminated list of a TickResult                                     *)
(***************************************************************************)
\* C23: in the result of every tick no player id is listed twice as
\* eliminated, every listed player is not alive at the end of the tick, and
\* every player that was alive during the tick (from its start or from a
\* respawn in it) and is not alive at its end is listed.
C23_EliminationReporting ==
    last.op = "tick" =>
        /\ \A i, j \in DOMAIN last.eliminated :
              i # j => last.eliminated[i] # last.eliminated[j]
        /\ \A i \in DOMAIN last.eliminated :
              /\ last.eliminated[i] \in DOMAIN players
              /\ ~players[last.eliminated[i]].alive
        /\ \A id \in DOMAIN players :
              (last.after_respawn[id].alive /\ ~players[id].alive)
                  => \E i \in DOMAIN last.eliminated : last.eliminated[i] = id

\* the collision check of a tick has reported one victim twice
C23_Witness ==
    /\ last.op = "tick"
    /\ \E i, j \in DOMAIN last.collisions :
          /\ i # j
          /\ last.collisions[i].victim = last.collisions[j].victim
          /\ \E k \in DOMAIN last.eliminated :
                last.eliminated[k] = last.collisions[i].victim

(***************************************************************************)
(* The trail of a moving player                                            *)
(***************************************************************************)
\* pos added to the trail the way add_to_trail adds it: not a second time when
\* it is the last entry already
Extended(trail, pos) ==
    IF trail # <<>> /\ trail[Len(trail)] = pos THEN trail ELSE Append(trail, pos)

\* the players that changed cell in the movement phase of the last tick
Movers == {id \in DOMAIN last.after_respawn :
             last.after_movement[id].position # last.after_respawn[id].position}

\* the trail player_id handed to claim_territory in the last tick
Submitted(player_id) ==
    {last.claims[i].trail : i \in {j \in DOMAIN last.claims :
                                      last.claims[j].player_id = player_id}}

\* C24 as stated: a player moving to a cell it does not own gets its pre-move
\* position appended to its trail unless that is the last entry already; a
\* player moving to a cell it owns with a non-empty trail gets the new position
\* appended, that whole trail is handed to claim_territory in the same tick,
\* and its trail is empty after the movement phase.
C24_TrailLifecycle_Stated ==
    last.op = "tick" =>
        \A id \in Movers :
            LET p == last.after_respawn[id]
                q == last.after_movement[id]
            IN  IF ~is_owned_by(last.after_respawn_territory, q.position, id)
                THEN q.trail = Extended(p.trail, p.position)
                ELSE p.trail # <<>> =>
                        /\ Submitted(id) = {Append(p.trail, q.position)}
                        /\ q.trail = <<>>

\* C24: as stated, except that on completion too the new position is appended
\* only when it is not the last entry of the trail already.
C24_TrailLifecycle ==
    last.op = "tick" =>
        \A id \in Movers :
            LET p == last.after_respawn[id]
                q == last.after_movement[id]
            IN  IF ~is_owned_by(last.after_respawn_territory, q.position, id)
                THEN q.trail = Extended(p.trail, p.position)
                ELSE p.trail # <<>> =>
                        /\ Submitted(id) = {Extended(p.trail, q.position)}
                        /\ q.trail = <<>>

\* a player with a trail of two cells has moved onto a cell of its own, and a
\* trail of three cells was handed to claim_territory
C24_Witness ==
    /\ last.op = "tick"
    /\ \E id \in Movers :
          /\ Len(last.after_respawn[id].trail) = 2
          /\ is_owned_by(last.after_respawn_territory,
                         last.after_movement[id].position, id)
          /\ last.after_movement[id].trail = <<>>
          /\ \E trail \in Submitted(id) : Len(trail) = 3

(***************************************************************************)
(* Ticks without end: one player on a LiveW x LiveH grid, with a respawn   *)
(* delay of 0 or 2.  The game loop calls tick at every period of the tick  *)
(* rate, which is weak fairness of the tick; inputs, joins and leaves come *)
(* from the client and may stop.  tick reads the tick counter nowhere, so  *)
(* the counter is kept modulo LiveTicks.  tick can be called in every      *)
(* state and is the only operation that changes the counter, so weak       *)
(* fairness of the tick is weak fairness of the advance of the counter,    *)
(* TickCount, which is how it is written.                                  *)
(***************************************************************************)
LiveW == 3
LiveH == 2
LiveTicks == 2
LiveJoins == 2
LivePlayers == {1}

ConfigsLive ==
    {[PaperioConfig(1, delay, 1, 1) EXCEPT !.grid_width = LiveW,
                                           !.grid_height = LiveH] :
        delay \in {0, 2}}

InitLive ==
    /\ config \in ConfigsLive
    /\ players = <<>>
    /\ territory = TerritoryGrid_new(config.grid_width, config.grid_height)
    /\ tick = 0
    /\ joins = 0
    /\ last = NoCall
    /\ room_manager = RoomManager_new(MaxPlayersPerRoom)
    /\ session_manager = SessionManager_new

\* `self.tick += 1`
TickCount == tick' = (tick + 1) % LiveTicks

TickLive == TickBody /\ TickCount

JoinLive == joins < LiveJoins /\ \E player_id \in LivePlayers : JoinCall(player_id)

NextLive ==
    \/ TickLive
    \/ \E player_id \in LivePlayers, code \in 0..4 : HandleInput(player_id, Some(code))
    \/ JoinLive
    \/ \E player_id \in LivePlayers : PlayerLeft(player_id)

SpecLive == InitLive /\ [][NextLive]_vars /\ WF_tick(TickCount)

\* C25: for every configured respawn delay, 0 included, while ticks keep being
\* executed a player that is in the game and not alive leaves the game or is
\* alive again later on.
C25_EventualRespawn ==
    \A player_id \in LivePlayers :
        (player_id \in DOMAIN players /\ ~players[player_id].alive)
            ~> (player_id \notin DOMAIN players \/ players[player_id].alive)

(***************************************************************************)
(* The two countdowns                                                      *)
(***************************************************************************)
\* C26: with a respawn delay of at least 1, after every operation a player is
\* alive exactly when its respawn countdown is 0; every elimination a tick
\* applies is of a player that was alive in that tick, and a player that is
\* dead before and after a tick without respawning in it has had its
\* countdown lowered by 1, never reset or increased.
C26_RespawnCountdown ==
    config.respawn_delay_ticks >= 1 =>
        /\ \A id \in DOMAIN players :
              players[id].alive <=> players[id].respawn_timer = 0
        /\ last.op = "tick" =>
              /\ \A i \in DOMAIN last.applied :
                    last.after_respawn[last.applied[i].victim].alive
              /\ \A id \in DOMAIN players :
                    (/\ ~last.before.players[id].alive
                     /\ ~players[id].alive
                     /\ ~Contains(last.respawns, id))
                        => players[id].respawn_timer
                              = last.before.players[id].respawn_timer - 1

\* a tick has left one player dead with its countdown lowered from 2 to 1 and
\* has eliminated another one
C26_Witness ==
    /\ last.op = "tick"
    /\ last.applied # <<>>
    /\ \E id \in DOMAIN players :
          /\ ~last.before.players[id].alive
          /\ last.before.players[id].respawn_timer = 2
          /\ ~players[id].alive
          /\ players[id].respawn_timer = 1

\* C27: a tick lowers the invulnerability countdown of every player, alive or
\* dead, by exactly 1 if it is greater than 0 and leaves it at 0 otherwise; it
\* lowers the respawn countdown by exactly 1 for the players that are not alive
\* and have it greater than 0 and leaves every other respawn countdown as it
\* was; no countdown is ever below 0.
C27_TimerAdvance ==
    /\ \A id \in DOMAIN players :
          players[id].invulnerability_timer >= 0 /\ players[id].respawn_timer >= 0
    /\ last.op = "tick" =>
          \A id \in DOMAIN last.before.players :
              LET p == last.before.players[id]
                  q == last.after_timers[id]
              IN  /\ q.invulnerability_timer
                        = IF p.invulnerability_timer > 0
                          THEN p.invulnerability_timer - 1 ELSE 0
                  /\ q.respawn_timer
                        = IF ~p.alive /\ p.respawn_timer > 0
                          THEN p.respawn_timer - 1 ELSE p.respawn_timer
                  /\ q.invulnerability_timer >= 0 /\ q.respawn_timer >= 0

\* a tick has lowered the invulnerability countdown of a dead player and the
\* respawn countdown of that player
C27_Witness ==
    /\ last.op = "tick"
    /\ \E id \in DOMAIN last.before.players :
          /\ ~last.before.players[id].alive
          /\ last.before.players[id].invulnerability_timer > 0
          /\ last.after_timers[id].invulnerability_timer
                = last.before.players[id].invulnerability_timer - 1
          /\ last.after_timers[id].respawn_timer
                = last.before.players[id].respawn_timer - 1

(***************************************************************************)
(* find_spawn_position on a SpawnW x SpawnH grid with up to two players,   *)
(* alive or dead, each owning its starting block                           *)
(***************************************************************************)
SpawnW == 7
SpawnH == 7
SpawnSize == 3

SpawnCells == {GridPos(x, y) : x \in 0..(SpawnW - 1), y \in 0..(SpawnH - 1)}

InitSpawn ==
    /\ \E size \in 1..SpawnSize, spawn_distance \in {2, 5} :
          config = [PaperioConfig(size, 1, 2, spawn_distance) EXCEPT
                       !.grid_width = SpawnW, !.grid_height = SpawnH]
    /\ \E present \in SUBSET PlayerIds :
       \E pos \in [present -> SpawnCells], alive \in [present -> BOOLEAN] :
          players = [id \in present |-> JoinPlayer(id, pos[id], alive[id], config)]
    /\ territory = JoinGrid(TerritoryGrid_new(SpawnW, SpawnH), players, DOMAIN players,
                            config)
    /\ tick = 0
    /\ joins = 0
    /\ last = NoCall
    /\ room_manager = RoomManager_new(MaxPlayersPerRoom)
    /\ session_manager = SessionManager_new

SpawnCall ==
    /\ last.op = "new"
    /\ last' = [NoCall EXCEPT !.op = "find_spawn_position",
                              !.before = [players |-> players, territory |-> territory],
                              !.result = find_spawn_position(players, territory, config)]
    /\ UNCHANGED <<players, territory, tick, config, joins,
                 room_manager, session_manager>>

NextSpawn == SpawnCall

SpecSpawn == InitSpawn /\ [][NextSpawn]_vars

\* the positions of the alive players
Occupied == {players[id].position : id \in {i \in DOMAIN players : players[i].alive}}

\* the cells inside the margin
InMargin ==
    {c \in Cells(territory) :
        /\ c.x >= config.starting_territory_size
        /\ c.x < territory.width - config.starting_territory_size
        /\ c.y >= config.starting_territory_size
        /\ c.y < territory.height - config.starting_territory_size}

\* the Manhattan distance from c to the nearest alive player
Nearest(c) == Min({distance(c, other) : other \in Occupied})

\* the square ring around the centre on which c lies
Ring(c) ==
    Max2(abs(c.x - territory.width \div 2), abs(c.y - territory.height \div 2))

\* the cells inside the margin that are far enough from every alive player and
\* have a clear spawn area
Spawnable ==
    {c \in InMargin :
        /\ Nearest(c) >= config.min_spawn_distance
        /\ is_spawn_area_clear(territory, c, config.starting_territory_size)}

\* C28: find_spawn_position returns an in-bounds cell; the grid centre when no
\* player is alive; otherwise, when some cell inside the margin is far enough
\* from every alive player and has a clear spawn area, such a cell on the
\* smallest ring around the centre that holds one; and when there is none, a
\* cell inside the margin with the greatest distance to the nearest alive
\* player, or the centre when no cell inside the margin is away from every
\* alive player.
C28_SpawnSelection ==
    last.op = "find_spawn_position" =>
        /\ last.result # None
        /\ \E pos \in {last.result[1]} :
              /\ in_bounds(territory, pos)
              /\ Occupied = {} =>
                    pos = GridPos(territory.width \div 2, territory.height \div 2)
              /\ (Occupied # {} /\ Spawnable # {}) =>
                    /\ pos \in Spawnable
                    /\ \A c \in Spawnable : Ring(pos) <= Ring(c)
              /\ (Occupied # {} /\ Spawnable = {}) =>
                    IF \E c \in InMargin : Nearest(c) > 0
                    THEN /\ pos \in InMargin
                         /\ \A c \in InMargin : Nearest(pos) >= Nearest(c)
                    ELSE pos = GridPos(territory.width \div 2, territory.height \div 2)

\* a call with an alive player that returns the centre, an acceptable cell,
\* while the ring around the centre holds acceptable cells and others
C28_Witness ==
    /\ last.op = "find_spawn_position"
    /\ Occupied # {}
    /\ last.result[1] \in Spawnable
    /\ Ring(last.result[1]) = 0
    /\ \E c \in Spawnable : Ring(c) = 1
    /\ \E c \in InMargin \ Spawnable : Ring(c) = 1

(***************************************************************************)
(* is_spawn_area_clear on a ClaimW x ClaimH grid on which one player owns  *)
(* some of the cells of AreaCells, for every starting_territory_size up to *)
(* MaxSize.  The call is made for player 1, as respawn_player and          *)
(* player_joined make it through find_spawn_position.                      *)
(***************************************************************************)
AreaCells == {GridPos(2, 2), GridPos(1, 1), GridPos(3, 2), GridPos(2, 3)}

\* the grid t with the cells of owned given to owner
AreaGrid(t, owned, owner) ==
    [t EXCEPT !.cells = [k \in DOMAIN @ |->
                           IF \E c \in owned : pos_to_index(t, c) = Some(k)
                           THEN Some(owner) ELSE None]]

InitArea ==
    /\ \E size \in 1..MaxSize :
          config = [PaperioConfig(size, 1, 2, 1) EXCEPT !.grid_width = ClaimW,
                                                        !.grid_height = ClaimH]
    /\ \E owned \in SUBSET AreaCells, owner \in PlayerIds :
          territory = AreaGrid(TerritoryGrid_new(ClaimW, ClaimH), owned, owner)
    /\ players = <<>>
    /\ tick = 0
    /\ joins = 0
    /\ last = NoCall
    /\ room_manager = RoomManager_new(MaxPlayersPerRoom)
    /\ session_manager = SessionManager_new

AreaCall(player_id, center) ==
    /\ last.op = "new"
    /\ last' = [NoCall EXCEPT !.op = "is_spawn_area_clear", !.player_id = player_id,
                              !.input = center,
                              !.result = is_spawn_area_clear(territory, center,
                                            config.starting_territory_size)]
    /\ UNCHANGED <<players, territory, tick, config, joins,
                 room_manager, session_manager>>

NextArea == \E center \in ClaimCells : AreaCall(1, center)

SpecArea == InitArea /\ [][NextArea]_vars

\* the cells grant_starting_territory assigns around center for the size
Block(center, size) ==
    {c \in Cells(territory) : /\ abs(c.x - center.x) <= size \div 2
                              /\ abs(c.y - center.y) <= size \div 2}

\* the cells of the block around center that players other than player_id own
OwnedByOthers(center, size, player_id) ==
    {c \in Block(center, size) :
        get_cell_owner(territory, c) \notin {None, Some(player_id)}}

\* C29: a candidate cell passes the area check exactly when fewer than 25% of
\* the cells of its starting-territory block are owned by players other than
\* the one being spawned.
C29_SpawnAreaRule ==
    last.op = "is_spawn_area_clear" =>
        (last.result <=>
            4 * Cardinality(OwnedByOthers(last.input, config.starting_territory_size,
                                          last.player_id))
              < Cardinality(Block(last.input, config.starting_territory_size)))

(***************************************************************************)
(* Inputs between ticks: one player on a TurnW x TurnH grid.  The record   *)
(* `last` is left alone by handle_input here, so that at each tick it      *)
(* still holds the record of the tick before.                              *)
(***************************************************************************)
TurnW == 3
TurnH == 3
TurnTicks == 3
TurnJoins == 1
TurnPlayers == {1}

InitTurn ==
    /\ config = [PaperioConfig(1, 1, 0, 1) EXCEPT !.grid_width = TurnW,
                                                  !.grid_height = TurnH]
    /\ players = <<>>
    /\ territory = TerritoryGrid_new(config.grid_width, config.grid_height)
    /\ tick = 0
    /\ joins = 0
    /\ last = NoCall
    /\ room_manager = RoomManager_new(MaxPlayersPerRoom)
    /\ session_manager = SessionManager_new

TickTurn == tick < TurnTicks /\ TickCall

InputTurn(player_id, input) ==
    /\ players' = handle_input(players, player_id, input).players
    /\ UNCHANGED <<territory, tick, config, joins, last,
                 room_manager, session_manager>>

JoinTurn == joins < TurnJoins /\ \E player_id \in TurnPlayers : JoinCall(player_id)

NextTurn ==
    \/ TickTurn
    \/ \E player_id \in TurnPlayers, code \in 0..4 : InputTurn(player_id, Some(code))
    \/ JoinTurn

SpecTurn == InitTurn /\ [][NextTurn]_vars

\* C30: whatever handle_input calls are made between two consecutive ticks, a
\* player that changed cell in the first of them does not move in the second
\* onto the cell it left in the first.
C30_NoStepBack ==
    [][(last.op = "tick" /\ tick' = tick + 1) =>
          \A id \in DOMAIN last.after_respawn :
              (/\ last.after_movement[id].position # last.after_respawn[id].position
               /\ last'.after_movement[id].position # last'.after_respawn[id].position)
                  => last'.after_movement[id].position
                        # last.after_respawn[id].position]_vars

(***************************************************************************)
(* The players as the collision check of the last tick saw them            *)
(***************************************************************************)
\* the players a boundary hit eliminated in the last tick
BoundaryVictims ==
    {last.applied[i].victim : i \in {j \in DOMAIN last.applied :
                                        last.applied[j].reason = "Boundary"}}

\* the players alive when check_collisions ran
AliveAtCheck ==
    {id \in DOMAIN last.after_movement :
        last.after_movement[id].alive /\ id \notin BoundaryVictims}

\* the alive players other than owner standing on a cell of owner's trail
OnTrailOf(owner) ==
    {id \in AliveAtCheck \ {owner} :
        Contains(last.after_movement[owner].trail, last.after_movement[id].position)}

\* the trail cuts check_collisions reported in the last tick
TrailCuts ==
    {last.collisions[i] : i \in {j \in DOMAIN last.collisions :
                                    last.collisions[j].reason = "TrailCut"}}

\* C31: no trail cut reported by a tick names an invulnerable player as
\* killer, and a player on whose trail only invulnerable players stand is not
\* reported as the victim of a trail cut in that tick.
C31_InvulnerableNoCut ==
    last.op = "tick" =>
        /\ \A e \in TrailCuts :
              /\ e.killer \in AliveAtCheck
              /\ last.after_movement[e.killer].invulnerability_timer = 0
        /\ \A owner \in AliveAtCheck :
              (\A id \in OnTrailOf(owner) :
                  last.after_movement[id].invulnerability_timer > 0)
                  => \A e \in TrailCuts : e.victim # owner

\* an invulnerable player stands on the trail of a player that is not
\* invulnerable, and the tick leaves that player alive
C31_Witness ==
    /\ last.op = "tick"
    /\ \E owner \in AliveAtCheck :
          /\ last.after_movement[owner].invulnerability_timer = 0
          /\ OnTrailOf(owner) # {}
          /\ \A id \in OnTrailOf(owner) :
                last.after_movement[id].invulnerability_timer > 0
          /\ players[owner].alive

\* C32: two alive players that are not invulnerable and stand, after the
\* movement, each on a cell of the trail of the other are both eliminated in
\* that tick, in whatever order the collision check examines them.
C32_MutualTrailCut ==
    last.op = "tick" =>
        \A a, b \in AliveAtCheck :
            (/\ a # b
             /\ last.after_movement[a].invulnerability_timer = 0
             /\ last.after_movement[b].invulnerability_timer = 0
             /\ a \in OnTrailOf(b)
             /\ b \in OnTrailOf(a))
                => /\ Contains(last.eliminated, a) /\ ~players[a].alive
                   /\ Contains(last.eliminated, b) /\ ~players[b].alive

(***************************************************************************)
(* The order of the phases of a tick                                       *)
(***************************************************************************)
\* the players that completed a trail in the movement phase of the last tick
Closers == {last.claims[i].player_id : i \in DOMAIN last.claims}

\* C33: in every tick a player that completed its trail is not reported as the
\* victim of a trail cut; every cell of a trail handed to claim_territory is
\* owned at the end of the tick by the player that handed it in or by a player
\* whose claim came later in the tick, whether or not the claiming player is
\* eliminated afterwards; and a player eliminated by a boundary hit has made
\* no claim in that tick.
C33_PhaseOrdering ==
    last.op = "tick" =>
        /\ \A e \in TrailCuts : e.victim \notin Closers
        /\ \A i \in DOMAIN last.claims :
              \A k \in DOMAIN last.claims[i].trail :
                  \E j \in i..Len(last.claims) :
                      is_owned_by(territory, last.claims[i].trail[k],
                                  last.claims[j].player_id)
        /\ \A i \in DOMAIN last.move_results :
              last.move_results[i][2].should_claim =>
                  \E j \in DOMAIN last.claims :
                      /\ last.claims[j].player_id = last.move_results[i][1]
                      /\ last.claims[j].trail = last.move_results[i][2].trail_to_claim
        /\ BoundaryVictims \cap Closers = {}

\* a player has completed a trail through a cell it did not own, another
\* player stands on that cell, and the first is eliminated by a head-on
\* collision in the same tick while the cell has become its own
C33_Witness ==
    /\ last.op = "tick"
    /\ \E i \in DOMAIN last.claims, j \in DOMAIN last.applied :
          /\ last.applied[j].victim = last.claims[i].player_id
          /\ last.applied[j].reason = "HeadCollision"
          /\ \E k \in DOMAIN last.claims[i].trail :
                /\ ~is_owned_by(last.after_respawn_territory, last.claims[i].trail[k],
                                last.claims[i].player_id)
                /\ is_owned_by(territory, last.claims[i].trail[k],
                               last.claims[i].player_id)

(***************************************************************************)
(* The protection a join gives: two players on a ShieldW x ShieldH grid,   *)
(* invulnerability of 1 or 2 ticks.  The respawn delay is longer than the  *)
(* run, so that every alive player owes its invulnerability to a join.     *)
(***************************************************************************)
ShieldW == 3
ShieldH == 3
ShieldTicks == 2

ConfigsShield ==
    {[PaperioConfig(1, ShieldTicks + 1, invulnerability, 1) EXCEPT
         !.grid_width = ShieldW, !.grid_height = ShieldH] :
        invulnerability \in 1..2}

InitShield ==
    /\ config \in ConfigsShield
    /\ players = <<>>
    /\ territory = TerritoryGrid_new(config.grid_width, config.grid_height)
    /\ tick = 0
    /\ joins = 0
    /\ last = NoCall
    /\ room_manager = RoomManager_new(MaxPlayersPerRoom)
    /\ session_manager = SessionManager_new

TickShield == tick < ShieldTicks /\ TickCall

NextShield ==
    \/ TickShield
    \/ \E player_id \in PlayerIds, code \in 0..4 : HandleInput(player_id, Some(code))
    \/ \E player_id \in PlayerIds : PlayerJoined(player_id)

SpecShield == InitShield /\ [][NextShield]_vars

\* C34: a player that joined with an invulnerability of N >= 1 ticks is not
\* eliminated by a self collision, a trail cut or a head-on collision in any of
\* the first N ticks after the join, that is in any tick that starts with its
\* invulnerability countdown at 1 or more.
C34_JoinProtection ==
    last.op = "tick" =>
        \A i \in DOMAIN last.applied :
            (/\ last.applied[i].reason # "Boundary"
             /\ last.before.players[last.applied[i].victim].alive)
                => last.before.players[last.applied[i].victim].invulnerability_timer = 0

(***************************************************************************)
(* One tick over CollidePlayers standing players: each stands on one of    *)
(* two cells of a CollideW x CollideH grid with no direction, owns one     *)
(* cell or none, and is vulnerable or has two ticks of invulnerability     *)
(* left.  The scores are those update_scores gives for the grid.           *)
(***************************************************************************)
CollideW == 3
CollideH == 2
CollidePlayers == 4

CollideCells == {GridPos(0, 0), GridPos(1, 0)}

InitCollide ==
    /\ config = [PaperioConfig(1, 1, 2, 1) EXCEPT !.grid_width = CollideW,
                                                  !.grid_height = CollideH]
    /\ \E owns \in [1..CollidePlayers -> BOOLEAN] :
          /\ territory = [width |-> CollideW, height |-> CollideH,
                          cells |-> [k \in 1..(CollideW * CollideH) |->
                                       IF k <= CollidePlayers /\ owns[k]
                                       THEN Some(k) ELSE None]]
          /\ \E pos \in [1..CollidePlayers -> CollideCells],
                shield \in [1..CollidePlayers -> {0, 2}] :
                players = update_scores(
                            [id \in 1..CollidePlayers |->
                               [Player_new(id, pos[id]) EXCEPT
                                   !.invulnerability_timer = shield[id]]],
                            territory)
    /\ tick = 0
    /\ joins = 0
    /\ last = NoCall
    /\ room_manager = RoomManager_new(MaxPlayersPerRoom)
    /\ session_manager = SessionManager_new

TickCollide == last.op = "new" /\ TickCall

NextCollide == TickCollide

SpecCollide == InitCollide /\ [][NextCollide]_vars

\* C35: at the end of every tick no cell holds two players that are both
\* alive and not invulnerable.
C35_NoSharedCell ==
    last.op = "tick" =>
        \A a, b \in DOMAIN players :
            (/\ a # b
             /\ players[a].alive /\ players[b].alive
             /\ players[a].position = players[b].position)
                => \/ is_invulnerable(players[a])
                   \/ is_invulnerable(players[b])

(***************************************************************************)
(* One tick under every iteration order of the players map                 *)
(***************************************************************************)
\* the members of a sequence
Members(s) == {s[i] : i \in DOMAIN s}

\* C36: the players eliminated by a tick and the ownership of the grid after
\* it are the same for every order in which the players map could have been
\* iterated in that tick.
C36_TickDeterminism ==
    last.op = "tick" =>
        \A order \in Orders(DOMAIN last.before.players) :
        \E first \in {tick_first(last.before.players, last.before.territory, config,
                                 order)} :
        \A positions \in Orders(CollidingPositions(first.players)) :
        \E r \in {tick_rest(first, config, order, positions)} :
            /\ Members(r.trace.eliminated) = Members(last.eliminated)
            /\ r.territory.cells = territory.cells

\* C37: in every state reached by player_joined, player_left, handle_input and
\* tick calls, every owned cell of the grid is owned by an id that is in the
\* players map (alive or awaiting respawn).
C37_NoOrphanedOwnership ==
    \A c \in Cells(territory) :
        get_cell_owner(territory, c) # None =>
            \E id \in DOMAIN players : get_cell_owner(territory, c) = Some(id)

\* a player has left while another player, still in the map, owns cells, and
\* ticks have run
C37_Witness ==
    /\ last.op = "player_left"
    /\ last.player_id \notin DOMAIN players
    /\ tick >= 2
    /\ \E q \in DOMAIN players : count_owned_by(territory, q) >= 2
    /\ \E c \in Cells(territory) : get_cell_owner(territory, c) = None

(***************************************************************************)
(* The room manager on its own: three players join, leave and set ready in *)
(* any order, in rooms of at most one or two players; handle_ready starts  *)
(* a room in which everybody is ready.                                      *)
(***************************************************************************)
InitRoom ==
    /\ config \in Configs
    /\ players = <<>>
    /\ territory = TerritoryGrid_new(config.grid_width, config.grid_height)
    /\ tick = 0
    /\ joins = 0
    /\ last = [NoCall EXCEPT !.before = RoomManager_new(MaxPlayersPerRoom)]
    /\ room_manager \in {RoomManager_new(n) : n \in 1..MaxPlayersPerRoom}
    /\ session_manager = SessionManager_new

JoinRoom(room_code, player_id, player_name) ==
    /\ \E generated \in generate_room_code(join_room_left(room_manager, player_id)) :
       \E r \in {join_room(room_manager, room_code, player_id, player_name, generated)} :
          /\ room_manager' = r.manager
          /\ last' = [NoCall EXCEPT !.op = "join_room", !.player_id = player_id,
                                    !.input = <<room_code>>, !.ok = r.ok, !.err = r.err,
                                    !.before = room_manager, !.result = <<r.code>>]
    /\ UNCHANGED <<players, territory, tick, config, joins, session_manager>>

LeaveRoom(player_id) ==
    /\ \E r \in {leave_room(room_manager, player_id)} :
          /\ room_manager' = r.manager
          /\ last' = [NoCall EXCEPT !.op = "leave_room", !.player_id = player_id,
                                    !.ok = r.room_code # None,
                                    !.before = room_manager, !.result = r.room_code]
    /\ UNCHANGED <<players, territory, tick, config, joins, session_manager>>

SetReady(player_id, ready) ==
    /\ \E r \in {set_ready(room_manager, player_id, ready)} :
          /\ room_manager' = r.manager
          /\ last' = [NoCall EXCEPT !.op = "set_ready", !.player_id = player_id,
                                    !.input = <<ready>>, !.ok = r.ok, !.err = r.err,
                                    !.before = room_manager]
    /\ UNCHANGED <<players, territory, tick, config, joins, session_manager>>

HandleReady(player_id) ==
    /\ room_manager' = handle_ready(room_manager, player_id)
    /\ last' = [NoCall EXCEPT !.op = "handle_ready", !.player_id = player_id,
                              !.before = room_manager]
    /\ UNCHANGED <<players, territory, tick, config, joins, session_manager>>

NextRoom ==
    \/ \E room_code \in RoomCodes \cup {""}, player_id \in RoomPlayerIds,
          player_name \in RoomNames : JoinRoom(room_code, player_id, player_name)
    \/ \E player_id \in RoomPlayerIds : LeaveRoom(player_id)
    \/ \E player_id \in RoomPlayerIds, ready \in BOOLEAN : SetReady(player_id, ready)
    \/ \E player_id \in RoomPlayerIds : HandleReady(player_id)

SpecRoom == InitRoom /\ [][NextRoom]_vars

\* C38: after any sequence of join_room, leave_room and set_ready calls
\* (max_players >= 1) the player-to-room index names room c for player p
\* exactly when room c exists and contains p; so every player is in at most one
\* room, no room holds more than max_players players, and no room is kept with
\* zero players.
C38_RoomMembership ==
    /\ \A p \in RoomPlayerIds, c \in RoomCodes \cup {""} :
          (p \in DOMAIN room_manager.player_room /\ room_manager.player_room[p] = c)
             <=> (c \in DOMAIN room_manager.rooms
                    /\ p \in DOMAIN room_manager.rooms[c].players)
    /\ \A p \in RoomPlayerIds :
          Cardinality({c \in DOMAIN room_manager.rooms :
                          p \in DOMAIN room_manager.rooms[c].players}) <= 1
    /\ \A c \in DOMAIN room_manager.rooms :
          /\ Cardinality(DOMAIN room_manager.rooms[c].players)
                <= room_manager.rooms[c].max_players
          /\ DOMAIN room_manager.rooms[c].players # {}
          /\ room_manager.rooms[c].max_players = room_manager.max_players_per_room

\* the last member of a room has left it, the room is gone, and another room
\* is full
C38_Witness ==
    /\ last.op = "leave_room"
    /\ last.ok
    /\ last.result[1] \notin DOMAIN room_manager.rooms
    /\ \E c \in DOMAIN room_manager.rooms :
          /\ room_manager.max_players_per_room = 2
          /\ Cardinality(DOMAIN room_manager.rooms[c].players) = 2

\* C39: when join_room returns an error, the player is still a member of the
\* room it was in before the call and the rooms and their members are as they
\* were before the call.
C39_JoinFailureAtomic ==
    (last.op = "join_room" /\ ~last.ok) =>
        /\ room_manager.rooms = last.before.rooms
        /\ room_manager.player_room = last.before.player_room

(***************************************************************************)
(* The session manager on its own: registrations from two addresses,       *)
(* disconnections, reconnections by token to either address and removals,  *)
(* in any order, until MaxSessions player ids have been given out.         *)
(***************************************************************************)
InitSession ==
    /\ config \in Configs
    /\ players = <<>>
    /\ territory = TerritoryGrid_new(config.grid_width, config.grid_height)
    /\ tick = 0
    /\ joins = 0
    /\ last = [NoCall EXCEPT !.before = SessionManager_new]
    /\ room_manager = RoomManager_new(MaxPlayersPerRoom)
    /\ session_manager = SessionManager_new

Register(addr, player_name) ==
    /\ addr \in DOMAIN session_manager.sessions_by_addr
          \/ session_manager.next_player_id <= MaxSessions
    /\ \E reconnect_token \in generate_reconnect_token(session_manager) :
          session_manager' = register(session_manager, addr, player_name, reconnect_token)
    /\ last' = [NoCall EXCEPT !.op = "register", !.input = <<addr>>,
                              !.before = session_manager]
    /\ UNCHANGED <<players, territory, tick, config, joins, room_manager>>

MarkPlayerDisconnected(addr) ==
    /\ session_manager' = mark_player_disconnected(session_manager, addr)
    /\ last' = [NoCall EXCEPT !.op = "mark_player_disconnected", !.input = <<addr>>,
                              !.ok = addr \in DOMAIN session_manager.sessions_by_addr,
                              !.before = session_manager]
    /\ UNCHANGED <<players, territory, tick, config, joins, room_manager>>

ReconnectedByToken(token, new_addr, player_name, expired) ==
    /\ \E r \in {reconnected_by_token(session_manager, token, new_addr, player_name,
                                      expired)} :
          /\ session_manager' = r.manager
          /\ last' = [NoCall EXCEPT !.op = "reconnected_by_token",
                                    !.input = <<token, new_addr>>, !.ok = r.ok,
                                    !.before = session_manager]
    /\ UNCHANGED <<players, territory, tick, config, joins, room_manager>>

Remove(addr) ==
    /\ session_manager' = remove(session_manager, addr)
    /\ last' = [NoCall EXCEPT !.op = "remove", !.input = <<addr>>,
                              !.ok = addr \in DOMAIN session_manager.sessions_by_addr,
                              !.before = session_manager]
    /\ UNCHANGED <<players, territory, tick, config, joins, room_manager>>

NextSession ==
    \/ \E addr \in SessionAddrs, player_name \in SessionNames : Register(addr, player_name)
    \/ \E addr \in SessionAddrs : MarkPlayerDisconnected(addr)
    \/ \E token \in SessionTokens, new_addr \in SessionAddrs,
          player_name \in SessionNames, expired \in BOOLEAN :
             ReconnectedByToken(token, new_addr, player_name, expired)
    \/ \E addr \in SessionAddrs : Remove(addr)

SpecSession == InitSession /\ [][NextSession]_vars

\* the id-to-address index names address a for player id i exactly when the
\* session stored at a has player id i
IndexMatchesSessions(m) ==
    \A i \in 1..MaxSessions, a \in SessionAddrs :
        (i \in DOMAIN m.addr_by_player_id /\ m.addr_by_player_id[i] = a)
           <=> (a \in DOMAIN m.sessions_by_addr /\ m.sessions_by_addr[a].player_id = i)

\* C40: after any sequence of register, mark_player_disconnected,
\* reconnected_by_token and remove calls the id-to-address index maps player id
\* i to address a exactly when the session stored at a has player id i, no two
\* stored sessions share a player id, and a reconnect succeeds only for a
\* session that is in the Disconnected state.
C40_SessionIndex ==
    /\ IndexMatchesSessions(session_manager)
    /\ \A a, b \in DOMAIN session_manager.sessions_by_addr :
          a # b => session_manager.sessions_by_addr[a].player_id
                      # session_manager.sessions_by_addr[b].player_id
    /\ (last.op = "reconnected_by_token" /\ last.ok) =>
          \E a \in DOMAIN last.before.sessions_by_addr :
             /\ last.before.sessions_by_addr[a].reconnect_token = last.input[1]
             /\ last.before.sessions_by_addr[a].connection_state = "Disconnected"

=============================================================================
